---- MODULE Spec2Model ----
(***************************************************************************)
(* HED string validation (validator/event.js, validator/stringParser.js,   *)
(* utils/hed.js).  A HED string is a sequence of characters; a character   *)
(* is a one-element TLA+ string, except the control character ASCII NUL    *)
(* and the newline, which are named by NUL and NL.                         *)
(***************************************************************************)
EXTENDS Integers, Sequences, FiniteSets, TLC

(***************************************************************************)
(* Bounds of the model.                                                    *)
(***************************************************************************)
\* every string over Alphabet of at most MaxLen characters is an input
MaxLen == 3

(***************************************************************************)
(* Characters.                                                             *)
(***************************************************************************)
NUL == "NUL"
NL == "NL"

openingGroupCharacter == "("
closingGroupCharacter == ")"
comma == ","
tilde == "~"
delimiters == <<comma, tilde>>
openingAttributeGroupCharacter == "{"
closingAttributeGroupCharacter == "}"
doubleQuoteCharacter == "\""
slash == "/"
pound == "#"

\* JavaScript String.prototype.trim white space (NUL is not white space)
IsWhitespace(c) == c \in {" ", NL}

Digits == {"0", "1", "2", "3", "4", "5", "6", "7", "8", "9"}

\* String.prototype.toLowerCase / toUpperCase, letter by letter
LowerLetters ==
  <<"a", "b", "c", "d", "e", "f", "g", "h", "i", "j", "k", "l", "m",
    "n", "o", "p", "q", "r", "s", "t", "u", "v", "w", "x", "y", "z">>
UpperLetters ==
  <<"A", "B", "C", "D", "E", "F", "G", "H", "I", "J", "K", "L", "M",
    "N", "O", "P", "Q", "R", "S", "T", "U", "V", "W", "X", "Y", "Z">>
LowerOf ==
  [c \in {UpperLetters[i] : i \in 1..26} |->
     LowerLetters[CHOOSE i \in 1..26 : UpperLetters[i] = c]]
UpperOf ==
  [c \in {LowerLetters[i] : i \in 1..26} |->
     UpperLetters[CHOOSE i \in 1..26 : LowerLetters[i] = c]]
toLowerChar(c) == IF c \in DOMAIN LowerOf THEN LowerOf[c] ELSE c
toUpperChar(c) == IF c \in DOMAIN UpperOf THEN UpperOf[c] ELSE c
toLowerCase(s) == [i \in 1..Len(s) |-> toLowerChar(s[i])]

(***************************************************************************)
(* JavaScript string primitives on character sequences.                    *)
(***************************************************************************)
Includes(s, c) == \E i \in 1..Len(s) : s[i] = c

SeqIncludes(list, x) == \E i \in 1..Len(list) : list[i] = x

\* String.prototype.indexOf for one character: 0-based, -1 when absent
IndexOf(s, c) ==
  IF Includes(s, c)
  THEN (CHOOSE i \in 1..Len(s) : s[i] = c /\ \A j \in 1..(i - 1) : s[j] # c) - 1
  ELSE -1

LastIndexOf(s, c) ==
  IF Includes(s, c)
  THEN (CHOOSE i \in 1..Len(s) : s[i] = c /\ \A j \in (i + 1)..Len(s) : s[j] # c) - 1
  ELSE -1

StartsWith(s, p) == Len(p) <= Len(s) /\ SubSeq(s, 1, Len(p)) = p

EndsWith(s, p) == Len(p) <= Len(s) /\ SubSeq(s, Len(s) - Len(p) + 1, Len(s)) = p

\* s.substring(n) / s.slice(n) for 0 <= n
Substring(s, n) == SubSeq(s, n + 1, Len(s))

\* s.slice(0, -n) for n > 0
SliceEnd(s, n) == SubSeq(s, 1, Len(s) - n)

\* String.prototype.trim
Trim(s) ==
  IF \A i \in 1..Len(s) : IsWhitespace(s[i])
  THEN <<>>
  ELSE LET first == CHOOSE i \in 1..Len(s) :
                      ~IsWhitespace(s[i]) /\ \A j \in 1..(i - 1) : IsWhitespace(s[j])
           last == CHOOSE i \in 1..Len(s) :
                      ~IsWhitespace(s[i]) /\ \A j \in (i + 1)..Len(s) : IsWhitespace(s[j])
       IN SubSeq(s, first, last)

\* utils.string.stringIsEmpty: !str.trim()
stringIsEmpty(s) == Trim(s) = <<>>

\* utils.string.getCharacterCount
RECURSIVE getCharacterCount(_, _)
getCharacterCount(s, c) ==
  IF s = <<>> THEN 0
  ELSE (IF Head(s) = c THEN 1 ELSE 0) + getCharacterCount(Tail(s), c)

\* utils.string.capitalizeString: first character upper-cased
capitalizeString(s) == IF s = <<>> THEN <<>> ELSE <<toUpperChar(s[1])>> \o Tail(s)

RECURSIVE Flatten(_)
Flatten(lists) == IF lists = <<>> THEN <<>> ELSE Head(lists) \o Flatten(Tail(lists))

(***************************************************************************)
(* Issues: utils.generateIssue(code, parameters).  Every issue is a record *)
(* of the same shape; a parameter the issue kind does not carry keeps its  *)
(* default.                                                                *)
(***************************************************************************)
NoIssueParameters ==
  [kind |-> "", character |-> "", index |-> -1, string |-> <<>>,
   tag |-> <<>>, previousTag |-> <<>>, tagPrefix |-> <<>>, tagGroup |-> <<>>,
   defaultUnit |-> <<>>, unitClassUnits |-> <<>>, opening |-> -1, closing |-> -1]

generateIssue(kind) == [NoIssueParameters EXCEPT !.kind = kind]

CharacterIssue(character, index, string) ==
  [generateIssue("invalidCharacter") EXCEPT
     !.character = character, !.index = index, !.string = string]

ExtraDelimiterIssue(character, index, string) ==
  [generateIssue("extraDelimiter") EXCEPT
     !.character = character, !.index = index, !.string = string]

TagIssue(kind, tag) == [generateIssue(kind) EXCEPT !.tag = tag]

IssuesOfKind(issues, kind) == SelectSeq(issues, LAMBDA e : e.kind = kind)

(***************************************************************************)
(* Structural check: event.js, substituteCharacters,                       *)
(* countTagGroupParentheses, findDelimiterIssuesInHedString.               *)
(***************************************************************************)
RECURSIVE substitutionIssuesFrom(_, _)
substitutionIssuesFrom(hedString, i) ==
  IF i > Len(hedString) THEN <<>>
  ELSE (IF hedString[i] = NUL
        THEN <<CharacterIssue("ASCII NUL", i - 1, hedString)>>
        ELSE <<>>) \o substitutionIssuesFrom(hedString, i + 1)

\* returns [fixedString, issues]
substituteCharacters(hedString) ==
  [fixedString |-> [i \in 1..Len(hedString) |->
                      IF hedString[i] = NUL THEN " " ELSE hedString[i]],
   issues |-> substitutionIssuesFrom(hedString, 1)]

ParenthesesIssue(numberOfOpeningParentheses, numberOfClosingParentheses) ==
  [generateIssue("parentheses") EXCEPT
     !.opening = numberOfOpeningParentheses, !.closing = numberOfClosingParentheses]

\* faulty variant: only a surplus of opening parentheses is reported
countTagGroupParenthesesSurplusOnly(hedString) ==
  IF getCharacterCount(hedString, openingGroupCharacter)
       > getCharacterCount(hedString, closingGroupCharacter)
  THEN <<ParenthesesIssue(getCharacterCount(hedString, openingGroupCharacter),
                          getCharacterCount(hedString, closingGroupCharacter))>>
  ELSE <<>>

countTagGroupParentheses(hedString) ==
  IF getCharacterCount(hedString, openingGroupCharacter)
       # getCharacterCount(hedString, closingGroupCharacter)
  THEN <<ParenthesesIssue(getCharacterCount(hedString, openingGroupCharacter),
                          getCharacterCount(hedString, closingGroupCharacter))>>
  ELSE <<>>

\* faulty variant: a second closing parenthesis counts as a missing comma too
isCommaMissingAfterClosingParenthesisTwice(lastNonEmptyCharacter, currentCharacter) ==
  /\ lastNonEmptyCharacter = closingGroupCharacter
  /\ ~SeqIncludes(delimiters, currentCharacter)

isCommaMissingAfterClosingParenthesis(lastNonEmptyCharacter, currentCharacter) ==
  /\ lastNonEmptyCharacter = closingGroupCharacter
  /\ ~(SeqIncludes(delimiters, currentCharacter) \/ currentCharacter = closingGroupCharacter)

\* the state of the scan before the first character
DelimiterScanStart ==
  [issues |-> <<>>, lastNonEmptyValidCharacter |-> "", lastNonEmptyValidIndex |-> 0,
   currentTag |-> <<>>, broken |-> FALSE]

\* faulty variant: the `continue` after an extra delimiter is missing, so the
\* reported delimiter also becomes the last valid character
DelimiterScanStepWithoutContinue(hedString, i, st) ==
  LET currentCharacter == hedString[i + 1]
      currentTag == Append(st.currentTag, currentCharacter)
      accepted(s) == [s EXCEPT !.lastNonEmptyValidCharacter = currentCharacter,
                               !.lastNonEmptyValidIndex = i]
  IN IF stringIsEmpty(<<currentCharacter>>)
     THEN [st EXCEPT !.currentTag = currentTag]
     ELSE IF SeqIncludes(delimiters, currentCharacter)
     THEN IF Trim(currentTag) = <<currentCharacter>>
          THEN accepted([st EXCEPT
                 !.issues = Append(@, ExtraDelimiterIssue(currentCharacter, i, hedString)),
                 !.currentTag = <<>>])
          ELSE accepted([st EXCEPT !.currentTag = <<>>])
     ELSE IF currentCharacter = openingGroupCharacter
     THEN IF Trim(currentTag) = <<openingGroupCharacter>>
          THEN accepted([st EXCEPT !.currentTag = <<>>])
          ELSE accepted([st EXCEPT !.issues = Append(@, TagIssue("invalidTag", currentTag)),
                                   !.currentTag = currentTag])
     ELSE IF isCommaMissingAfterClosingParenthesis(st.lastNonEmptyValidCharacter, currentCharacter)
     THEN [st EXCEPT !.issues = Append(@, TagIssue("commaMissing", SliceEnd(currentTag, 1))),
                     !.currentTag = currentTag, !.broken = TRUE]
     ELSE accepted([st EXCEPT !.currentTag = currentTag])

\* one iteration of the for loop, for the character at 0-based index i
DelimiterScanStep(hedString, i, st) ==
  LET currentCharacter == hedString[i + 1]
      currentTag == Append(st.currentTag, currentCharacter)
      accepted(s) == [s EXCEPT !.lastNonEmptyValidCharacter = currentCharacter,
                               !.lastNonEmptyValidIndex = i]
  IN IF stringIsEmpty(<<currentCharacter>>)
     THEN [st EXCEPT !.currentTag = currentTag]
     ELSE IF SeqIncludes(delimiters, currentCharacter)
     THEN IF Trim(currentTag) = <<currentCharacter>>
          THEN [st EXCEPT !.issues = Append(@, ExtraDelimiterIssue(currentCharacter, i, hedString)),
                          !.currentTag = <<>>]
          ELSE accepted([st EXCEPT !.currentTag = <<>>])
     ELSE IF currentCharacter = openingGroupCharacter
     THEN IF Trim(currentTag) = <<openingGroupCharacter>>
          THEN accepted([st EXCEPT !.currentTag = <<>>])
          ELSE accepted([st EXCEPT !.issues = Append(@, TagIssue("invalidTag", currentTag)),
                                   !.currentTag = currentTag])
     ELSE IF isCommaMissingAfterClosingParenthesis(st.lastNonEmptyValidCharacter, currentCharacter)
     THEN [st EXCEPT !.issues = Append(@, TagIssue("commaMissing", SliceEnd(currentTag, 1))),
                     !.currentTag = currentTag, !.broken = TRUE]
     ELSE accepted([st EXCEPT !.currentTag = currentTag])

RECURSIVE DelimiterScan(_, _, _)
DelimiterScan(hedString, i, st) ==
  IF i >= Len(hedString) \/ st.broken THEN st
  ELSE DelimiterScan(hedString, i + 1, DelimiterScanStep(hedString, i, st))

\* after the loop: a delimiter as the last valid character is one more issue
DelimiterScanEnd(hedString, st) ==
  IF SeqIncludes(delimiters, st.lastNonEmptyValidCharacter)
  THEN Append(st.issues,
              ExtraDelimiterIssue(st.lastNonEmptyValidCharacter,
                                  st.lastNonEmptyValidIndex, hedString))
  ELSE st.issues

findDelimiterIssuesInHedString(hedString) ==
  DelimiterScanEnd(hedString, DelimiterScan(hedString, 0, DelimiterScanStart))

\* returns [substitutionIssues, issues]
FullHedStringIssues(fixed) ==
  [substitutionIssues |-> fixed.issues,
   issues |-> countTagGroupParentheses(fixed.fixedString)
                \o findDelimiterIssuesInHedString(fixed.fixedString)]

validateFullHedString(hedString) == FullHedStringIssues(substituteCharacters(hedString))

(***************************************************************************)
(* Parser: stringParser.js.                                                *)
(***************************************************************************)
IsEnclosed(trimmedHedString) ==
  /\ StartsWith(trimmedHedString, <<openingGroupCharacter>>)
  /\ EndsWith(trimmedHedString, <<closingGroupCharacter>>)

hedStringIsAGroup(hedString) == IsEnclosed(Trim(hedString))

\* returns [result, issues]: the answer and the issues pushed
\* the invalidCharacter issue of a brace, at its first index in the full string
BraceIssue(character, fullHedString) ==
  CharacterIssue(character, IndexOf(fullHedString, character), fullHedString)

IsAnAttributeGroup(trimmedHedString, fullHedString) ==
  IF Includes(trimmedHedString, openingAttributeGroupCharacter)
  THEN IF ~Includes(trimmedHedString, closingAttributeGroupCharacter)
       THEN [result |-> FALSE,
             issues |-> <<BraceIssue(openingAttributeGroupCharacter, fullHedString)>>]
       ELSE IF IndexOf(trimmedHedString, openingAttributeGroupCharacter)
                 > IndexOf(trimmedHedString, closingAttributeGroupCharacter)
       THEN [result |-> FALSE,
             issues |-> <<BraceIssue(openingAttributeGroupCharacter, fullHedString),
                          BraceIssue(closingAttributeGroupCharacter, fullHedString)>>]
       ELSE [result |-> TRUE, issues |-> <<>>]
  ELSE IF Includes(trimmedHedString, closingAttributeGroupCharacter)
  THEN [result |-> FALSE,
        issues |-> <<BraceIssue(closingAttributeGroupCharacter, fullHedString)>>]
  ELSE [result |-> FALSE, issues |-> <<>>]

hedStringIsAnAttributeGroup(hedString, fullHedString) ==
  IsAnAttributeGroup(Trim(hedString), fullHedString)

removeGroupParentheses(tagGroup) == SubSeq(tagGroup, 2, Len(tagGroup) - 1)

\* currentTag.trim() is pushed unless currentTag is empty
PushCurrentTag(hedTags, currentTag) ==
  IF ~stringIsEmpty(currentTag) THEN Append(hedTags, Trim(currentTag)) ELSE hedTags

SplitStart(issues) ==
  [hedTags |-> <<>>, numberOfOpenedGroups |-> 0, numberOfClosedGroups |-> 0,
   currentTag |-> <<>>, issues |-> issues]

\* faulty variant: the braces of attribute groups are not counted
CountGroupsOfParentheses(st, character) ==
  [st EXCEPT
     !.numberOfOpenedGroups = @ + (IF character = openingGroupCharacter THEN 1 ELSE 0),
     !.numberOfClosedGroups = @ + (IF character = closingGroupCharacter THEN 1 ELSE 0)]

\* the group counters after the character
CountGroups(st, character) ==
  [st EXCEPT
     !.numberOfOpenedGroups =
        @ + (IF character \in {openingGroupCharacter, openingAttributeGroupCharacter}
             THEN 1 ELSE 0),
     !.numberOfClosedGroups =
        @ + (IF character \in {closingGroupCharacter, closingAttributeGroupCharacter}
             THEN 1 ELSE 0)]

\* the branches on a character that is no double quote; counted is the state
\* with the counters updated
SplitCharacter(hedString, i, character, counted) ==
  IF counted.numberOfOpenedGroups = counted.numberOfClosedGroups /\ character = tilde
  THEN [counted EXCEPT
          !.hedTags = Append(PushCurrentTag(@, counted.currentTag), <<tilde>>),
          !.currentTag = <<>>]
  ELSE IF counted.numberOfOpenedGroups = counted.numberOfClosedGroups /\ character = comma
  THEN [counted EXCEPT !.hedTags = PushCurrentTag(@, counted.currentTag),
                       !.currentTag = <<>>]
  ELSE IF character \in {"[", "]"}
  THEN [counted EXCEPT !.issues = Append(@, CharacterIssue(character, i, hedString)),
                       !.hedTags = PushCurrentTag(@, counted.currentTag),
                       !.currentTag = <<>>]
  ELSE [counted EXCEPT !.currentTag = Append(@, character)]

\* one iteration of the loop of splitHedString, for the character at 0-based index i
SplitStep(hedString, i, st) ==
  IF hedString[i + 1] = doubleQuoteCharacter
  THEN st
  ELSE SplitCharacter(hedString, i, hedString[i + 1], CountGroups(st, hedString[i + 1]))

RECURSIVE SplitScan(_, _, _)
SplitScan(hedString, i, st) ==
  IF i >= Len(hedString) THEN st
  ELSE SplitScan(hedString, i + 1, SplitStep(hedString, i, st))

\* after the loop: the last tag is pushed
SplitEnd(st) ==
  [hedTags |-> PushCurrentTag(st.hedTags, st.currentTag), issues |-> st.issues]

\* returns [hedTags, issues]: the tags and the issue array after the call
splitHedString(hedString, issues) == SplitEnd(SplitScan(hedString, 0, SplitStart(issues)))

AttributeTag == <<"A", "t", "t", "r", "i", "b", "u", "t", "e">>

\* the piece of a string before its first opening brace
PieceBeforeBrace(string) ==
  IF Includes(string, openingAttributeGroupCharacter)
  THEN SubSeq(string, 1, IndexOf(string, openingAttributeGroupCharacter))
  ELSE string

\* tagOrGroup.split('{'): the first two pieces
SplitAtOpeningBrace(tagOrGroup) ==
  [primaryTag |-> PieceBeforeBrace(tagOrGroup),
   attributeTagString |->
     PieceBeforeBrace(Substring(tagOrGroup,
                                IndexOf(tagOrGroup, openingAttributeGroupCharacter) + 1))]

\* attributeTagList.map(...): every attribute under 'Attribute'
AttributeTags(attributeTagList) ==
  [k \in 1..Len(attributeTagList) |->
     IF StartsWith(attributeTagList[k], <<slash>>)
     THEN AttributeTag \o attributeTagList[k]
     ELSE AttributeTag \o <<slash>> \o attributeTagList[k]]

\* tagGroupList.unshift(primaryTag)
AttributeGroup(primaryTag, split) ==
  [tagGroupList |-> <<primaryTag>> \o AttributeTags(split.hedTags), issues |-> split.issues]

AttributeGroupPieces(pieces, issues) ==
  AttributeGroup(Trim(pieces.primaryTag),
                 splitHedString(Trim(SliceEnd(pieces.attributeTagString, 1)), issues))

\* the group an attribute group stands for: the primary tag and the attributes
AttributeGroupSplit(tagOrGroup, issues) ==
  AttributeGroupPieces(SplitAtOpeningBrace(tagOrGroup), issues)

\* parsedString.tagGroupStrings.push(tagOrGroup); parsedString.tagGroups.push(list)
PushTagGroup(ps, tagOrGroup, tagGroupList) ==
  [ps EXCEPT !.tagGroupStrings = Append(@, tagOrGroup),
             !.tagGroups = Append(@, tagGroupList)]

PushAttributeGroup(ps, tagOrGroup, group) ==
  PushTagGroup([ps EXCEPT !.issues = group.issues], tagOrGroup, group.tagGroupList)

\* the last two branches of the loop body; attribute is the answer of
\* hedStringIsAnAttributeGroup with the issues it pushed
TagOrAttributeGroup(tagOrGroup, ps, attribute) ==
  IF attribute.result
  THEN PushAttributeGroup(ps, tagOrGroup,
                          AttributeGroupSplit(tagOrGroup, ps.issues \o attribute.issues))
  ELSE IF ~SeqIncludes(ps.tags, tagOrGroup)
  THEN [ps EXCEPT !.issues = @ \o attribute.issues, !.tags = Append(@, tagOrGroup)]
  ELSE [ps EXCEPT !.issues = @ \o attribute.issues]

\* parsedString and issues are one record ps: tags, tagGroups, tagGroupStrings, issues
RECURSIVE findTagGroups(_, _, _)
\* faulty variant: the group is recorded before the groups nested in it
NestedGroupBeforeItsMembers(tagOrGroup, hedString, ps, split) ==
  findTagGroups(split.hedTags, hedString,
                PushTagGroup([ps EXCEPT !.issues = split.issues], tagOrGroup, split.hedTags))

\* the first branch of the loop body: split is the split of the group's content
NestedGroup(tagOrGroup, hedString, ps, split) ==
  PushTagGroup(findTagGroups(split.hedTags, hedString, [ps EXCEPT !.issues = split.issues]),
               tagOrGroup, split.hedTags)

FindTagGroup(tagOrGroup, hedString, ps) ==
  IF hedStringIsAGroup(tagOrGroup)
  THEN NestedGroup(tagOrGroup, hedString, ps,
                   splitHedString(removeGroupParentheses(tagOrGroup), ps.issues))
  ELSE TagOrAttributeGroup(tagOrGroup, ps, hedStringIsAnAttributeGroup(tagOrGroup, hedString))

findTagGroups(groupTagsList, hedString, ps) ==
  IF groupTagsList = <<>> THEN ps
  ELSE findTagGroups(Tail(groupTagsList), hedString,
                     FindTagGroup(Head(groupTagsList), hedString, ps))

\* returns [topLevelTags, tags]
RECURSIVE findTopLevelTags(_, _)
findTopLevelTags(hedTags, acc) ==
  IF hedTags = <<>> THEN acc
  ELSE LET tagOrGroup == Head(hedTags)
       IN findTopLevelTags(Tail(hedTags),
            IF ~hedStringIsAGroup(tagOrGroup)
            THEN [topLevelTags |-> Append(acc.topLevelTags, tagOrGroup),
                  tags |-> IF ~SeqIncludes(acc.tags, tagOrGroup)
                           THEN Append(acc.tags, tagOrGroup) ELSE acc.tags]
            ELSE acc)

\* String.prototype.replace('\n', ' '): the first newline only
ReplaceFirstNewline(hedTag) ==
  IF Includes(hedTag, NL) THEN [hedTag EXCEPT ![IndexOf(hedTag, NL) + 1] = " "] ELSE hedTag

\* if (hedTag.startsWith(c)) hedTag = hedTag.slice(1)
RemoveLeading(hedTag, character) ==
  IF StartsWith(hedTag, <<character>>) THEN Substring(hedTag, 1) ELSE hedTag

\* if (hedTag.endsWith(c)) hedTag = hedTag.slice(0, -1)
RemoveTrailing(hedTag, character) ==
  IF EndsWith(hedTag, <<character>>) THEN SliceEnd(hedTag, 1) ELSE hedTag

formatHedTag(hedTag, onlyRemoveNewLine) ==
  IF onlyRemoveNewLine
  THEN ReplaceFirstNewline(hedTag)
  ELSE toLowerCase(
         RemoveTrailing(
           RemoveLeading(
             RemoveTrailing(
               RemoveLeading(ReplaceFirstNewline(hedTag), doubleQuoteCharacter),
               doubleQuoteCharacter),
             slash),
           slash))

\* on a list of tags
formatHedTagsInList(hedTagList, onlyRemoveNewLine) ==
  [i \in 1..Len(hedTagList) |-> formatHedTag(hedTagList[i], onlyRemoveNewLine)]

\* on a list of lists of tags (the recursion on arrays)
formatHedTagGroupsInList(tagGroups, onlyRemoveNewLine) ==
  [i \in 1..Len(tagGroups) |-> formatHedTagsInList(tagGroups[i], onlyRemoveNewLine)]

\* the six formatted views, from the lists with the newlines removed
FormattedViews(tags, tagGroups, tagGroupStrings, topLevelTags, issues) ==
  [parsedString |->
     [tags |-> tags,
      tagGroups |-> tagGroups,
      tagGroupStrings |-> tagGroupStrings,
      topLevelTags |-> topLevelTags,
      formattedTags |-> formatHedTagsInList(tags, FALSE),
      formattedTagGroups |-> formatHedTagGroupsInList(tagGroups, FALSE),
      formattedTopLevelTags |-> formatHedTagsInList(topLevelTags, FALSE)],
   issues |-> issues]

ParseGroups(top, found) ==
  FormattedViews(formatHedTagsInList(found.tags, TRUE),
                 formatHedTagGroupsInList(found.tagGroups, TRUE),
                 found.tagGroupStrings,
                 formatHedTagsInList(top.topLevelTags, TRUE),
                 found.issues)

ParseTopLevel(hedString, split, top) ==
  ParseGroups(top,
              findTagGroups(split.hedTags, hedString,
                            [tags |-> top.tags, tagGroups |-> <<>>,
                             tagGroupStrings |-> <<>>, issues |-> split.issues]))

ParseSplit(hedString, split) ==
  ParseTopLevel(hedString, split,
                findTopLevelTags(split.hedTags, [topLevelTags |-> <<>>, tags |-> <<>>]))

\* returns [parsedString, issues]
parseHedString(hedString) == ParseSplit(hedString, splitHedString(hedString, <<>>))

(***************************************************************************)
(* The schema: hedSchemas.baseSchema.attributes.  A dictionary is a list   *)
(* of key/value entries in insertion order; `key in dictionary` is         *)
(* HasKey, `for (key in dictionary)` walks the list.                       *)
(***************************************************************************)
HasKey(dictionary, key) == \E i \in 1..Len(dictionary) : dictionary[i].key = key

ValueOf(dictionary, key) ==
  dictionary[CHOOSE i \in 1..Len(dictionary) : dictionary[i].key = key].value

Flag(key) == [key |-> key, value |-> TRUE]

Tag_a == <<"a">>
Tag_b == <<"b">>
Tag_bValue == <<"b", "/", "#">>
Tag_d == <<"d">>
Tag_dValue == <<"d", "/", "#">>
Unit_s == <<"s">>
Unit_second == <<"s", "e", "c", "o", "n", "d">>
Unit_foot == <<"f", "o", "o", "t">>
Unit_mile == <<"m", "i", "l", "e">>
Modifier_m == <<"m">>
Modifier_milli == <<"m", "i", "l", "l", "i">>

\* a/ allows extensions and is unique; b is required, takes a value and needs a
\* child; d is required; d/# takes a value of the unit classes time (units s and second,
\* default s) and physicalLength (units foot and mile)
SchemaDictionaries ==
  [tags |-> <<Flag(Tag_a), Flag(Tag_b), Flag(Tag_bValue), Flag(Tag_d), Flag(Tag_dValue)>>,
   takesValue |-> <<Flag(Tag_bValue), Flag(Tag_dValue)>>,
   extensionAllowed |-> <<Flag(Tag_a)>>,
   requireChild |-> <<Flag(Tag_b)>>,
   unique |-> <<Flag(Tag_a)>>,
   required |-> <<Flag(Tag_b), Flag(Tag_d)>>,
   unitClass |-> <<[key |-> Tag_dValue, value |-> <<"time", "physicalLength">>]>>,
   default |-> <<>>,
   units |-> <<[key |-> "time", value |-> <<Unit_s, Unit_second>>],
               [key |-> "physicalLength", value |-> <<Unit_foot, Unit_mile>>]>>,
   defaultUnits |-> <<[key |-> "time", value |-> Unit_s],
                      [key |-> "physicalLength", value |-> Unit_foot]>>,
   unitSymbol |-> <<Flag(Unit_s)>>,
   SIUnitModifier |-> <<Flag(Modifier_milli)>>,
   SIUnitSymbolModifier |-> <<Flag(Modifier_m)>>]

\* a schema of version 7.1.0 or later: it also has the unit class clockTime
\* (unit hour:min), which is the unit class of c/#
Tag_c == <<"c">>
Tag_cValue == <<"c", "/", "#">>
Unit_hourMin == <<"h", "o", "u", "r", ":", "m", "i", "n">>

ClockTimeDictionaries ==
  [SchemaDictionaries EXCEPT
     !.tags = @ \o <<Flag(Tag_c), Flag(Tag_cValue)>>,
     !.takesValue = @ \o <<Flag(Tag_cValue)>>,
     !.unitClass = @ \o <<[key |-> Tag_cValue, value |-> <<"clockTime">>]>>,
     !.units = @ \o <<[key |-> "clockTime", value |-> <<Unit_hourMin>>]>>,
     !.defaultUnits = @ \o <<[key |-> "clockTime", value |-> Unit_hourMin]>>]

\* SchemaAttributes.tagHasAttribute
tagHasAttribute(hedSchema, tag, tagAttribute) ==
  HasKey(hedSchema.dictionaries[tagAttribute], toLowerCase(tag))

(***************************************************************************)
(* utils/hed.js                                                            *)
(***************************************************************************)
replaceTagNameWithPound(formattedTag) ==
  LET lastTagSlashIndex == LastIndexOf(formattedTag, slash)
  IN IF lastTagSlashIndex # -1
     THEN SubSeq(formattedTag, 1, lastTagSlashIndex) \o <<slash, pound>>
     ELSE <<pound>>

\* 0-based indices of the slashes, ascending
RECURSIVE getTagSlashIndicesFrom(_, _)
getTagSlashIndicesFrom(tag, i) ==
  IF i > Len(tag) THEN <<>>
  ELSE (IF tag[i] = slash THEN <<i - 1>> ELSE <<>>) \o getTagSlashIndicesFrom(tag, i + 1)

getTagSlashIndices(tag) == getTagSlashIndicesFrom(tag, 1)

getTagName(tag) ==
  LET lastSlashIndex == LastIndexOf(tag, slash)
  IN IF lastSlashIndex = -1 THEN tag ELSE Substring(tag, lastSlashIndex + 1)

\* pluralize.plural of a unit name: the regular plural
Plural(unit) == IF EndsWith(unit, <<"s">>) THEN unit ELSE Append(unit, "s")

getValidDerivativeUnits(unit, hedSchema) ==
  IF ~HasKey(hedSchema.dictionaries.unitSymbol, unit)
  THEN <<unit, Plural(unit)>>
  ELSE <<unit>>

RECURSIVE StripModifiers(_, _)
StripModifiers(strippedValue, modifiers) ==
  IF modifiers = <<>> THEN strippedValue
  ELSE LET unitModifier == Head(modifiers).key
       IN StripModifiers(
            IF StartsWith(strippedValue, unitModifier)
            THEN Trim(Substring(strippedValue, Len(unitModifier)))
            ELSE IF EndsWith(strippedValue, unitModifier)
            THEN Trim(SliceEnd(strippedValue, Len(unitModifier)))
            ELSE strippedValue,
            Tail(modifiers))

\* the dictionary of the unit modifiers that apply
ModifiersOf(hedSchema, isUnitSymbol) ==
  IF isUnitSymbol THEN hedSchema.dictionaries.SIUnitSymbolModifier
  ELSE hedSchema.dictionaries.SIUnitModifier

\* returns [foundUnit, strippedValue]
stripOffUnitsIfValid(tagUnitValue, hedSchema, unit, isUnitSymbol) ==
  IF StartsWith(tagUnitValue, unit)
  THEN [foundUnit |-> TRUE,
        strippedValue |-> StripModifiers(Trim(Substring(tagUnitValue, Len(unit))),
                                         ModifiersOf(hedSchema, isUnitSymbol))]
  ELSE IF EndsWith(tagUnitValue, unit)
  THEN [foundUnit |-> TRUE,
        strippedValue |-> StripModifiers(Trim(SliceEnd(tagUnitValue, Len(unit))),
                                         ModifiersOf(hedSchema, isUnitSymbol))]
  ELSE [foundUnit |-> FALSE, strippedValue |-> <<>>]

\* Array.prototype.sort((first, second) => second.length - first.length): stable
RECURSIVE InsertByLength(_, _)
InsertByLength(sorted, unit) ==
  IF sorted = <<>> THEN <<unit>>
  ELSE IF Len(Head(sorted)) >= Len(unit)
  THEN <<Head(sorted)>> \o InsertByLength(Tail(sorted), unit)
  ELSE <<unit>> \o sorted

\* faulty variant: the units are tried in the order given
SortByLengthAsGiven(units) == units

RECURSIVE SortByLengthDescending(_)
SortByLengthDescending(units) ==
  IF units = <<>> THEN <<>>
  ELSE InsertByLength(SortByLengthDescending(SubSeq(units, 1, Len(units) - 1)),
                      units[Len(units)])

\* a unit symbol is stripped from the original value, a unit name from the
\* formatted value
StripDerivativeUnit(originalTagUnitValue, formattedTagUnitValue, derivativeUnit, hedSchema, isUnitSymbol) ==
  stripOffUnitsIfValid(IF isUnitSymbol THEN originalTagUnitValue ELSE formattedTagUnitValue,
                       hedSchema, derivativeUnit, isUnitSymbol)

\* the first derivative unit, in order, that strips; <<>> when none does
RECURSIVE FirstStripped(_, _, _, _, _)
\* if (foundUnit) return strippedValue, else the next derivative unit
StrippedOrNext(stripped, originalTagUnitValue, formattedTagUnitValue, unit, derivativeUnits, hedSchema) ==
  IF stripped.foundUnit THEN <<stripped.strippedValue>>
  ELSE FirstStripped(originalTagUnitValue, formattedTagUnitValue, unit,
                     Tail(derivativeUnits), hedSchema)

FirstStripped(originalTagUnitValue, formattedTagUnitValue, unit, derivativeUnits, hedSchema) ==
  IF derivativeUnits = <<>> THEN <<>>
  ELSE StrippedOrNext(
         StripDerivativeUnit(originalTagUnitValue, formattedTagUnitValue,
                             Head(derivativeUnits), hedSchema,
                             HasKey(hedSchema.dictionaries.unitSymbol, unit)),
         originalTagUnitValue, formattedTagUnitValue, unit, derivativeUnits, hedSchema)

RECURSIVE ValidateUnitsLoop(_, _, _, _)
\* the value stripped with this unit, else the next unit
FoundOrNext(found, originalTagUnitValue, formattedTagUnitValue, units, hedSchema) ==
  IF found # <<>> THEN found[1]
  ELSE ValidateUnitsLoop(originalTagUnitValue, formattedTagUnitValue, Tail(units), hedSchema)

ValidateUnitsLoop(originalTagUnitValue, formattedTagUnitValue, units, hedSchema) ==
  IF units = <<>> THEN formattedTagUnitValue
  ELSE FoundOrNext(
         FirstStripped(originalTagUnitValue, formattedTagUnitValue, Head(units),
                       getValidDerivativeUnits(Head(units), hedSchema), hedSchema),
         originalTagUnitValue, formattedTagUnitValue, units, hedSchema)

validateUnits(originalTagUnitValue, formattedTagUnitValue, tagUnitClassUnits, hedSchema) ==
  ValidateUnitsLoop(originalTagUnitValue, formattedTagUnitValue,
                    SortByLengthDescending(tagUnitClassUnits), hedSchema)

tagExistsInSchema(formattedTag, hedSchema) == HasKey(hedSchema.dictionaries.tags, formattedTag)

tagTakesValue(formattedTag, hedSchema) ==
  tagHasAttribute(hedSchema, replaceTagNameWithPound(formattedTag), "takesValue")

isUnitClassTag(formattedTag, hedSchema) ==
  tagHasAttribute(hedSchema, replaceTagNameWithPound(formattedTag), "unitClass")

\* the default unit of a value-taking tag: its own, else that of its first unit class
DefaultUnitOf(unitClassTag, hedSchema) ==
  IF tagHasAttribute(hedSchema, unitClassTag, "default")
  THEN ValueOf(hedSchema.dictionaries.default, unitClassTag)
  ELSE IF HasKey(hedSchema.dictionaries.unitClass, unitClassTag)
  THEN ValueOf(hedSchema.dictionaries.defaultUnits,
               ValueOf(hedSchema.dictionaries.unitClass, unitClassTag)[1])
  ELSE <<>>

\* <<>> stands for the empty string and for undefined
getUnitClassDefaultUnit(formattedTag, hedSchema) ==
  IF isUnitClassTag(formattedTag, hedSchema)
  THEN DefaultUnitOf(replaceTagNameWithPound(formattedTag), hedSchema)
  ELSE <<>>

getTagUnitClasses(formattedTag, hedSchema) ==
  IF isUnitClassTag(formattedTag, hedSchema)
  THEN ValueOf(hedSchema.dictionaries.unitClass, replaceTagNameWithPound(formattedTag))
  ELSE <<>>

\* the units of the unit classes, in order
UnitsOfClasses(tagUnitClasses, hedSchema) ==
  Flatten([i \in 1..Len(tagUnitClasses) |->
             ValueOf(hedSchema.dictionaries.units, tagUnitClasses[i])])

getTagUnitClassUnits(formattedTag, hedSchema) ==
  UnitsOfClasses(getTagUnitClasses(formattedTag, hedSchema), hedSchema)

isExtensionAllowedTag(formattedTag, hedSchema) ==
  \/ tagHasAttribute(hedSchema, formattedTag, "extensionAllowed")
  \/ LET tagSlashIndices == getTagSlashIndices(formattedTag)
     IN \E k \in 1..Len(tagSlashIndices) :
          tagHasAttribute(hedSchema, SubSeq(formattedTag, 1, tagSlashIndices[k]),
                          "extensionAllowed")

(***************************************************************************)
(* Helpers of the rules that live in utils/string.js and utils/hed.js.     *)
(***************************************************************************)
\* String.prototype.split for a one-character separator
RECURSIVE SplitOn(_, _)
SplitOn(s, c) ==
  IF ~Includes(s, c) THEN <<s>>
  ELSE <<SubSeq(s, 1, IndexOf(s, c))>> \o SplitOn(Substring(s, IndexOf(s, c) + 1), c)

IsDigits(s) == s # <<>> /\ \A i \in 1..Len(s) : s[i] \in Digits

\* digits with at most one decimal point, at least one digit after it
IsDecimal(s) ==
  IF Includes(s, ".")
  THEN LET whole == SubSeq(s, 1, IndexOf(s, "."))
           fraction == Substring(s, IndexOf(s, ".") + 1)
       IN (whole = <<>> \/ IsDigits(whole)) /\ IsDigits(fraction)
  ELSE IsDigits(s)

Unsigned(s) == IF StartsWith(s, <<"-">>) THEN Tail(s) ELSE s

\* a lower-cased number: integer, decimal or scientific notation
IsNumber(lower) ==
  IF Includes(lower, "e")
  THEN /\ IsDecimal(Unsigned(SubSeq(lower, 1, IndexOf(lower, "e"))))
       /\ IsDigits(Unsigned(Substring(lower, IndexOf(lower, "e") + 1)))
  ELSE IsDecimal(Unsigned(lower))

\* utils.HED.validateValue: integer, decimal, scientific notation, or '#'
validateValue(value, allowPlaceholders) ==
  \/ allowPlaceholders /\ value = <<pound>>
  \/ IsNumber(toLowerCase(value))

\* utils.string.isClockFaceTime: HH:MM or HH:MM:SS
isClockFaceTime(s) ==
  /\ Len(s) \in {5, 8}
  /\ \/ s[1] \in {"0", "1"} /\ s[2] \in Digits
     \/ s[1] = "2" /\ s[2] \in {"0", "1", "2", "3"}
  /\ s[3] = ":" /\ s[4] \in {"0", "1", "2", "3", "4", "5"} /\ s[5] \in Digits
  /\ Len(s) = 8 => s[6] = ":" /\ s[7] \in {"0", "1", "2", "3", "4", "5"} /\ s[8] \in Digits

\* utils.string.isDateTime: YYYY-MM-DDTHH:MM:SS
isDateTime(s) ==
  /\ Len(s) = 19
  /\ IsDigits(SubSeq(s, 1, 4)) /\ s[5] = "-" /\ IsDigits(SubSeq(s, 6, 7))
  /\ s[8] = "-" /\ IsDigits(SubSeq(s, 9, 10)) /\ toLowerChar(s[11]) = "t"
  /\ isClockFaceTime(SubSeq(s, 12, 19))

\* the characters in the order of their character codes
CharacterOrder ==
  <<NUL, NL, " ", "\"", "#", "(", ")", ",", "-", ".", "/",
    "0", "1", "2", "3", "4", "5", "6", "7", "8", "9", ":">>
    \o UpperLetters \o <<"[", "]">> \o LowerLetters \o <<"{", "}", "~">>

CharacterCode(c) == CHOOSE i \in 1..Len(CharacterOrder) : CharacterOrder[i] = c

\* first < second in the order of Array.prototype.sort()
RECURSIVE StringBefore(_, _)
StringBefore(first, second) ==
  IF second = <<>> THEN FALSE
  ELSE IF first = <<>> THEN TRUE
  ELSE IF Head(first) = Head(second) THEN StringBefore(Tail(first), Tail(second))
  ELSE CharacterCode(Head(first)) < CharacterCode(Head(second))

RECURSIVE InsertSorted(_, _)
InsertSorted(sorted, unit) ==
  IF sorted = <<>> THEN <<unit>>
  ELSE IF StringBefore(unit, Head(sorted)) THEN <<unit>> \o sorted
  ELSE <<Head(sorted)>> \o InsertSorted(Tail(sorted), unit)

\* Array.prototype.sort()
RECURSIVE SortStrings(_)
SortStrings(units) ==
  IF units = <<>> THEN <<>>
  ELSE InsertSorted(SortStrings(SubSeq(units, 1, Len(units) - 1)), units[Len(units)])

\* Array.prototype.join(',')
RECURSIVE JoinWithComma(_)
JoinWithComma(units) ==
  IF units = <<>> THEN <<>>
  ELSE IF Len(units) = 1 THEN units[1]
  ELSE units[1] \o <<comma>> \o JoinWithComma(Tail(units))

\* ParsedHedTag: the original tag and its formatted form
ParsedHedTag(originalTag, formattedTag) ==
  [originalTag |-> originalTag, formattedTag |-> formattedTag, canonicalTag |-> originalTag]

ParsedHedTags(tagList, formattedTagList) ==
  [i \in 1..Len(tagList) |-> ParsedHedTag(tagList[i], formattedTagList[i])]

(***************************************************************************)
(* The rules: event.js, "Validation tests".                                *)
(***************************************************************************)
\* /([A-Z-]+\s*[a-z-]*)+/.test(tagName): some upper-case letter or hyphen
camelCase(tagName) ==
  \E i \in 1..Len(tagName) : tagName[i] \in DOMAIN LowerOf \/ tagName[i] = "-"

\* one capitalization issue for every name that is neither capitalized nor camel case
CapitalizationIssues(tag, tagNames) ==
  Flatten([k \in 1..Len(tagNames) |->
             IF tagNames[k] # capitalizeString(tagNames[k]) /\ ~camelCase(tagNames[k])
             THEN <<TagIssue("capitalization", tag.originalTag)>>
             ELSE <<>>])

\* the names checked: the value of a value-taking tag is dropped
CheckedTagNames(tag, hedSchema, doSemanticValidation, allNames) ==
  IF doSemanticValidation /\ tagTakesValue(tag.formattedTag, hedSchema)
  THEN SliceEnd(allNames, 1) ELSE allNames

checkCapitalization(tag, hedSchema, doSemanticValidation) ==
  CapitalizationIssues(tag,
    CheckedTagNames(tag, hedSchema, doSemanticValidation, SplitOn(tag.originalTag, slash)))

\* the loop over i and j; duplicateIndices grows as pairs are found
RECURSIVE DuplicateScan(_, _, _, _)
DuplicateScan(tagList, i, j, st) ==
  IF i > Len(tagList) THEN st
  ELSE IF j > Len(tagList) THEN DuplicateScan(tagList, i + 1, 1, st)
  ELSE IF /\ i # j
          /\ tagList[i].formattedTag # <<tilde>>
          /\ tagList[i].formattedTag = tagList[j].formattedTag
          /\ i \notin st.duplicateIndices
          /\ j \notin st.duplicateIndices
  THEN DuplicateScan(tagList, i, j + 1,
         [duplicateIndices |-> st.duplicateIndices \cup {i, j},
          issues |-> Append(st.issues,
            IF toLowerCase(tagList[i].originalTag) = toLowerCase(tagList[j].originalTag)
            THEN TagIssue("duplicateTag", tagList[i].originalTag)
            ELSE TagIssue("duplicateTag", tagList[i].canonicalTag))])
  ELSE DuplicateScan(tagList, i, j + 1, st)

checkForDuplicateTags(tagList) ==
  DuplicateScan(tagList, 1, 1, [duplicateIndices |-> {}, issues |-> <<>>]).issues

checkForMultipleUniqueTags(tagList, hedSchema) ==
  LET uniqueTagPrefixes == hedSchema.dictionaries.unique
  IN Flatten([k \in 1..Len(uniqueTagPrefixes) |->
       IF Cardinality({i \in 1..Len(tagList) :
                         StartsWith(tagList[i].formattedTag, uniqueTagPrefixes[k].key)}) >= 2
       THEN <<[generateIssue("multipleUniqueTags") EXCEPT !.tag = uniqueTagPrefixes[k].key]>>
       ELSE <<>>])

\* faulty variant: the tildes are counted in the text of the group, with the
\* ones of its nested groups
checkNumberOfGroupTildesInText(originalTagGroup, parsedTagGroup) ==
  IF getCharacterCount(originalTagGroup.originalTag, tilde) > 2
  THEN <<[generateIssue("tooManyTildes") EXCEPT !.tagGroup = originalTagGroup.originalTag]>>
  ELSE <<>>

checkNumberOfGroupTildes(originalTagGroup, parsedTagGroup) ==
  LET tildeCount == Cardinality({i \in 1..Len(parsedTagGroup) :
                                   parsedTagGroup[i].originalTag = <<tilde>>})
  IN IF tildeCount > 2
     THEN <<[generateIssue("tooManyTildes") EXCEPT !.tagGroup = originalTagGroup.originalTag]>>
     ELSE <<>>

checkIfTagRequiresChild(tag, hedSchema) ==
  IF HasKey(hedSchema.dictionaries.requireChild, tag.formattedTag)
  THEN <<TagIssue("childRequired", tag.originalTag)>>
  ELSE <<>>

\* faulty variant: a tag anywhere in the string satisfies the requirement
checkForRequiredTagsInWholeString(parsedString, hedSchema) ==
  LET tagList == parsedString.tags
      requiredTagPrefixes == hedSchema.dictionaries.required
  IN Flatten([k \in 1..Len(requiredTagPrefixes) |->
       IF \E i \in 1..Len(tagList) :
            StartsWith(tagList[i].formattedTag, requiredTagPrefixes[k].key)
       THEN <<>>
       ELSE <<[generateIssue("requiredPrefixMissing") EXCEPT
                 !.tagPrefix = requiredTagPrefixes[k].key]>>])

checkForRequiredTags(parsedString, hedSchema) ==
  LET topLevelTagList == parsedString.topLevelTags
      requiredTagPrefixes == hedSchema.dictionaries.required
  IN Flatten([k \in 1..Len(requiredTagPrefixes) |->
       IF \E i \in 1..Len(topLevelTagList) :
            StartsWith(topLevelTagList[i].formattedTag, requiredTagPrefixes[k].key)
       THEN <<>>
       ELSE <<[generateIssue("requiredPrefixMissing") EXCEPT
                 !.tagPrefix = requiredTagPrefixes[k].key]>>])

\* faulty variant: the placeholder is never accepted as a value
checkIfTagUnitClassUnitsExistWithoutPlaceholders(tag, hedSchema, allowPlaceholders) ==
  IF isUnitClassTag(tag.formattedTag, hedSchema)
  THEN IF validateValue(getTagName(tag.formattedTag), FALSE)
       THEN <<[generateIssue("unitClassDefaultUsed") EXCEPT
                 !.tag = tag.originalTag,
                 !.defaultUnit = getUnitClassDefaultUnit(tag.formattedTag, hedSchema)]>>
       ELSE <<>>
  ELSE <<>>

\* faulty variant: the default unit is reported when the value is not a number
checkIfTagUnitClassUnitsExistWhenInvalid(tag, hedSchema, allowPlaceholders) ==
  IF isUnitClassTag(tag.formattedTag, hedSchema)
  THEN IF ~validateValue(getTagName(tag.formattedTag), allowPlaceholders)
       THEN <<[generateIssue("unitClassDefaultUsed") EXCEPT
                 !.tag = tag.originalTag,
                 !.defaultUnit = getUnitClassDefaultUnit(tag.formattedTag, hedSchema)]>>
       ELSE <<>>
  ELSE <<>>

checkIfTagUnitClassUnitsExist(tag, hedSchema, allowPlaceholders) ==
  IF isUnitClassTag(tag.formattedTag, hedSchema)
  THEN IF validateValue(getTagName(tag.formattedTag), allowPlaceholders)
       THEN <<[generateIssue("unitClassDefaultUsed") EXCEPT
                 !.tag = tag.originalTag,
                 !.defaultUnit = getUnitClassDefaultUnit(tag.formattedTag, hedSchema)]>>
       ELSE <<>>
  ELSE <<>>

\* the early returns for a date-time and for a clock-face time
IsDateOrClockTime(tagUnitClasses, formattedTagUnitValue, units) ==
  \/ /\ HasKey(units, "dateTime")
     /\ SeqIncludes(tagUnitClasses, "dateTime")
     /\ isDateTime(formattedTagUnitValue)
  \/ IF HasKey(units, "clockTime")
     THEN /\ SeqIncludes(tagUnitClasses, "clockTime")
          /\ isClockFaceTime(formattedTagUnitValue)
     ELSE /\ HasKey(units, "time")
          /\ SeqIncludes(tagUnitClasses, "time")
          /\ isClockFaceTime(formattedTagUnitValue)

\* faulty variant: the units are joined in the order validateUnits left them in
InvalidUnitIssueUnsorted(tag, tagUnitClassUnits) ==
  [generateIssue("unitClassInvalidUnit") EXCEPT
     !.tag = tag.originalTag,
     !.unitClassUnits = JoinWithComma(SortByLengthDescending(tagUnitClassUnits))]

\* the issue names the units after tagUnitClassUnits.sort(), which follows the
\* sort by length of validateUnits on the same array
InvalidUnitIssue(tag, tagUnitClassUnits) ==
  [generateIssue("unitClassInvalidUnit") EXCEPT
     !.tag = tag.originalTag,
     !.unitClassUnits = JoinWithComma(SortStrings(SortByLengthDescending(tagUnitClassUnits)))]

\* the body of the if, for a value-taking tag that is not itself in the schema
UnitClassUnitsAreValid(tag, hedSchema, allowPlaceholders, tagUnitClasses, formattedTagUnitValue, tagUnitClassUnits) ==
  IF IsDateOrClockTime(tagUnitClasses, formattedTagUnitValue, hedSchema.dictionaries.units)
  THEN <<>>
  ELSE IF ~validateValue(validateUnits(getTagName(tag.originalTag), formattedTagUnitValue,
                                       tagUnitClassUnits, hedSchema),
                         allowPlaceholders)
  THEN <<InvalidUnitIssue(tag, tagUnitClassUnits)>>
  ELSE <<>>

checkIfTagUnitClassUnitsAreValid(tag, hedSchema, allowPlaceholders) ==
  IF /\ ~tagExistsInSchema(tag.formattedTag, hedSchema)
     /\ isUnitClassTag(tag.formattedTag, hedSchema)
  THEN UnitClassUnitsAreValid(tag, hedSchema, allowPlaceholders,
                              getTagUnitClasses(tag.formattedTag, hedSchema),
                              getTagName(tag.formattedTag),
                              getTagUnitClassUnits(tag.formattedTag, hedSchema))
  ELSE <<>>

\* faulty variant: a value-taking previous tag is looked at before the
\* extensionAllowed ancestors
checkIfTagIsValidCommaFirst(tag, previousTag, hedSchema, allowPlaceholders, checkForWarnings) ==
  IF \/ tagExistsInSchema(tag.formattedTag, hedSchema)
     \/ tagTakesValue(tag.formattedTag, hedSchema)
     \/ tag.formattedTag = <<tilde>>
  THEN <<>>
  ELSE IF allowPlaceholders /\ Includes(tag.formattedTag, pound)
  THEN IF tagTakesValue(replaceTagNameWithPound(tag.formattedTag), hedSchema)
       THEN <<>>
       ELSE <<TagIssue("invalidPlaceholder", tag.originalTag)>>
  ELSE IF tagTakesValue(previousTag.formattedTag, hedSchema)
  THEN <<[generateIssue("extraCommaOrInvalid") EXCEPT
            !.tag = tag.originalTag, !.previousTag = previousTag.originalTag]>>
  ELSE IF ~isExtensionAllowedTag(tag.formattedTag, hedSchema)
  THEN <<TagIssue("invalidTag", tag.originalTag)>>
  ELSE IF checkForWarnings
  THEN <<TagIssue("extension", tag.originalTag)>>
  ELSE <<>>

\* faulty variant: the tilde is looked up like any other tag
checkIfTagIsValidWithoutTilde(tag, previousTag, hedSchema, allowPlaceholders, checkForWarnings) ==
  IF \/ tagExistsInSchema(tag.formattedTag, hedSchema)
     \/ tagTakesValue(tag.formattedTag, hedSchema)
  THEN <<>>
  ELSE IF allowPlaceholders /\ Includes(tag.formattedTag, pound)
  THEN IF tagTakesValue(replaceTagNameWithPound(tag.formattedTag), hedSchema)
       THEN <<>>
       ELSE <<TagIssue("invalidPlaceholder", tag.originalTag)>>
  ELSE IF /\ ~isExtensionAllowedTag(tag.formattedTag, hedSchema)
          /\ tagTakesValue(previousTag.formattedTag, hedSchema)
  THEN <<[generateIssue("extraCommaOrInvalid") EXCEPT
            !.tag = tag.originalTag, !.previousTag = previousTag.originalTag]>>
  ELSE IF ~isExtensionAllowedTag(tag.formattedTag, hedSchema)
  THEN <<TagIssue("invalidTag", tag.originalTag)>>
  ELSE IF checkForWarnings
  THEN <<TagIssue("extension", tag.originalTag)>>
  ELSE <<>>

checkIfTagIsValid(tag, previousTag, hedSchema, allowPlaceholders, checkForWarnings) ==
  IF \/ tagExistsInSchema(tag.formattedTag, hedSchema)
     \/ tagTakesValue(tag.formattedTag, hedSchema)
     \/ tag.formattedTag = <<tilde>>
  THEN <<>>
  ELSE IF allowPlaceholders /\ Includes(tag.formattedTag, pound)
  THEN IF tagTakesValue(replaceTagNameWithPound(tag.formattedTag), hedSchema)
       THEN <<>>
       ELSE <<TagIssue("invalidPlaceholder", tag.originalTag)>>
  ELSE IF /\ ~isExtensionAllowedTag(tag.formattedTag, hedSchema)
          /\ tagTakesValue(previousTag.formattedTag, hedSchema)
  THEN <<[generateIssue("extraCommaOrInvalid") EXCEPT
            !.tag = tag.originalTag, !.previousTag = previousTag.originalTag]>>
  ELSE IF ~isExtensionAllowedTag(tag.formattedTag, hedSchema)
  THEN <<TagIssue("invalidTag", tag.originalTag)>>
  ELSE IF checkForWarnings
  THEN <<TagIssue("extension", tag.originalTag)>>
  ELSE <<>>

(***************************************************************************)
(* Validation groups: event.js.  The rules read the parsed string through  *)
(* its tag objects.                                                        *)
(***************************************************************************)
TagObjects(parsedString) ==
  [tags |-> ParsedHedTags(parsedString.tags, parsedString.formattedTags),
   topLevelTags |-> ParsedHedTags(parsedString.topLevelTags,
                                  parsedString.formattedTopLevelTags),
   tagGroups |-> [i \in 1..Len(parsedString.tagGroups) |->
                    ParsedHedTags(parsedString.tagGroups[i],
                                  parsedString.formattedTagGroups[i])],
   tagGroupStrings |-> [i \in 1..Len(parsedString.tagGroupStrings) |->
                          [originalTag |-> parsedString.tagGroupStrings[i]]]]

\* faulty variant: the capitalization check ignores checkForWarnings
validateIndividualHedTagAlwaysCapitalization(tag, previousTag, hedSchema, doSemanticValidation, checkForWarnings, allowPlaceholders) ==
  (IF doSemanticValidation
   THEN checkIfTagIsValid(tag, previousTag, hedSchema, allowPlaceholders, checkForWarnings)
          \o checkIfTagUnitClassUnitsAreValid(tag, hedSchema, allowPlaceholders)
          \o checkIfTagRequiresChild(tag, hedSchema)
          \o (IF checkForWarnings
              THEN checkIfTagUnitClassUnitsExist(tag, hedSchema, allowPlaceholders)
              ELSE <<>>)
   ELSE <<>>)
  \o checkCapitalization(tag, hedSchema, doSemanticValidation)

validateIndividualHedTag(tag, previousTag, hedSchema, doSemanticValidation, checkForWarnings, allowPlaceholders) ==
  (IF doSemanticValidation
   THEN checkIfTagIsValid(tag, previousTag, hedSchema, allowPlaceholders, checkForWarnings)
          \o checkIfTagUnitClassUnitsAreValid(tag, hedSchema, allowPlaceholders)
          \o checkIfTagRequiresChild(tag, hedSchema)
          \o (IF checkForWarnings
              THEN checkIfTagUnitClassUnitsExist(tag, hedSchema, allowPlaceholders)
              ELSE <<>>)
   ELSE <<>>)
  \o (IF checkForWarnings
      THEN checkCapitalization(tag, hedSchema, doSemanticValidation)
      ELSE <<>>)

\* faulty variant: the loop stops at the first tag that has an issue
RECURSIVE IndividualHedTagsUntilFailure(_, _, _, _, _, _, _, _)
IndividualHedTagsUntilFailure(tags, i, previousTag, issues, hedSchema, doSemanticValidation, checkForWarnings, allowPlaceholders) ==
  IF i > Len(tags) \/ issues # <<>> THEN issues
  ELSE IndividualHedTagsUntilFailure(tags, i + 1, tags[i],
         issues \o validateIndividualHedTag(tags[i], previousTag, hedSchema,
                     doSemanticValidation, checkForWarnings, allowPlaceholders),
         hedSchema, doSemanticValidation, checkForWarnings, allowPlaceholders)

\* the loop of validateIndividualHedTags from tag i on
RECURSIVE IndividualHedTagsFrom(_, _, _, _, _, _, _, _)
IndividualHedTagsFrom(tags, i, previousTag, issues, hedSchema, doSemanticValidation, checkForWarnings, allowPlaceholders) ==
  IF i > Len(tags) THEN issues
  ELSE IndividualHedTagsFrom(tags, i + 1, tags[i],
         issues \o validateIndividualHedTag(tags[i], previousTag, hedSchema,
                     doSemanticValidation, checkForWarnings, allowPlaceholders),
         hedSchema, doSemanticValidation, checkForWarnings, allowPlaceholders)

validateIndividualHedTags(parsedString, hedSchema, doSemanticValidation, checkForWarnings, allowPlaceholders) ==
  IndividualHedTagsFrom(parsedString.tags, 1, ParsedHedTag(<<>>, <<>>), <<>>, hedSchema,
                        doSemanticValidation, checkForWarnings, allowPlaceholders)

validateHedTagLevel(tagList, hedSchema, doSemanticValidation) ==
  (IF doSemanticValidation THEN checkForMultipleUniqueTags(tagList, hedSchema) ELSE <<>>)
  \o checkForDuplicateTags(tagList)

\* faulty variant: the tags of the top level and of every group form one level
validateHedTagLevelsOfWholeString(parsedString, hedSchema, doSemanticValidation) ==
  validateHedTagLevel(Flatten(parsedString.tagGroups) \o parsedString.topLevelTags,
                      hedSchema, doSemanticValidation)

\* a group's level is validated without the third argument: undefined, so falsy
validateHedTagLevels(parsedString, hedSchema, doSemanticValidation) ==
  Flatten([i \in 1..Len(parsedString.tagGroups) |->
             validateHedTagLevel(parsedString.tagGroups[i], hedSchema, FALSE)])
  \o validateHedTagLevel(parsedString.topLevelTags, hedSchema, doSemanticValidation)

validateHedTagGroup(originalTagGroup, parsedTagGroup) ==
  checkNumberOfGroupTildes(originalTagGroup, parsedTagGroup)

validateHedTagGroups(parsedString) ==
  Flatten([i \in 1..Len(parsedString.tagGroups) |->
             validateHedTagGroup(parsedString.tagGroupStrings[i], parsedString.tagGroups[i])])

validateTopLevelTags(parsedString, hedSchema, doSemanticValidation, checkForWarnings) ==
  IF doSemanticValidation /\ checkForWarnings
  THEN checkForRequiredTags(parsedString, hedSchema)
  ELSE <<>>

(***************************************************************************)
(* The inputs of a validation call.                                        *)
(***************************************************************************)
Alphabet == {"A", "b", comma, tilde, openingGroupCharacter, closingGroupCharacter, " ",
             openingAttributeGroupCharacter, closingAttributeGroupCharacter, NUL}

\* further strings: groups, nested groups, attribute groups, brackets, slashes,
\* values with units, placeholders, clock-face times, repeated tags
LongerStrings ==
  {<<"A", ",", "(", "b", ",", "A", ")">>,
   <<"A", ",", "(", "(", "b", ")", ",", "A", ")">>,
   <<"(", "A", ")", "b">>,
   <<"A", "(", "b", ")">>,
   <<")", "b", ",", ",">>,
   <<"A", "{", "b", "}">>,
   <<"(", "A", "{", "b", "}", ")">>,
   <<"A", ",", "{", "b", "}">>,
   <<"A", ",", "A", "/", "b">>,
   <<"(", "A", "~", "b", "~", "A", "~", "b", ")">>,
   <<"(", "A", ",", "(", "b", "~", "A", ")", ")">>,
   <<"D", "/", "3">>,
   <<"D", "/", "3", " ", "s">>,
   <<"b", "/", "A", ",", "A", "/", "b">>,
   <<"A", NUL, ",", "(", "b", ")">>,
   <<"A", NUL, ",", "A", "[">>,
   <<"(", "A", ")", ",", ",", "A">>,
   <<"A", " ", ",", " ", "b", ",">>,
   <<"(", "b", ",", "b", ")", ",", "b">>,
   <<" ", "(", " ", "A", " ", ")", ",", "A">>,
   <<"[">>,
   <<"A", "[", "b">>,
   <<"[", "~", NUL>>,
   <<"A", "]", ",">>,
   <<"A", "/", "b">>,
   <<"b", "/">>,
   <<"/", "A">>,
   <<"b", "/", "3">>,
   <<"A", "/", "b", NUL>>,
   <<"A", ",", "/", "A">>,
   <<"/", "/", "A">>,
   <<"A", "/", "/">>,
   <<"D", "/", "3", " ", "s", "e", "c", "o", "n", "d">>,
   <<"D", "/", "3", " ", "s", "e", "c", "o", "n", "d", "s">>,
   <<"D", "/", "f", "o", "o", "t", "3", "m", "i", "l", "e">>,
   <<"b", "/", "3", ",", "b", "b">>,
   <<"A", "/", "#">>,
   <<"#", "/", "b">>,
   <<"b", "b", "/", "#">>,
   <<"D", "/", "#", " ", "s">>,
   <<"D", "/", "#">>,
   <<"D", "/", "0", "8", ":", "3", "0">>,
   <<"C", "/", "0", "8", ":", "3", "0">>,
   <<"C", "/", "5", "4", ":", "5", "4">>,
   <<"A", ",", "A", ",", "A">>,
   <<"A", ",", "A", ",", "A", ",", "A">>,
   <<"(", "A", ")", ",", "(", "A", ")">>,
   <<"A", ",", "(", "A", "/", "b", ")">>,
   <<"(", "A", "~", "b", "~", "A", ")">>,
   <<"(", "A", ",", "(", "b", "~", "A", "~", "b", "~", "A", ")", ")">>,
   <<"(", "A", "[", "]", "b", ")">>,
   <<"A", ")", ",", "(", "b">>,
   <<"(", "(", "A", ")", ",", "(", "b", ")", ")", ",", "(", "A", ")">>,
   <<"(", "A", ",", "b", ")", "~", "(", "b", "~", "A", ")", ",", " ", "b", " ">>}

HedStrings == UNION {[1..n -> Alphabet] : n \in 0..MaxLen} \cup LongerStrings

\* buildSchemaAttributesObject(xmlData)
SchemaAttributes == [dictionaries |-> SchemaDictionaries]

\* hedSchemas: not a Schemas object (syntactic validation only), a Schemas
\* object whose attributes are not built yet, or one with its attributes (of a
\* schema without or with the unit class clockTime)
NoSchemas == [isSchemas |-> FALSE, attributes |-> <<>>]
UnbuiltSchemas == [isSchemas |-> TRUE, attributes |-> <<>>]
BuiltSchemas == [isSchemas |-> TRUE, attributes |-> <<SchemaAttributes>>]
ClockTimeSchemaAttributes == [dictionaries |-> ClockTimeDictionaries]
BuiltClockTimeSchemas == [isSchemas |-> TRUE, attributes |-> <<ClockTimeSchemaAttributes>>]

(***************************************************************************)
(* The validator as a state machine.  A call enters through                *)
(* validateHedString or validateHedEvent, runs initiallyValidateHedString  *)
(* (the structural check, then the parse) and then the semantic passes of  *)
(* its entry point; result is <<>> until the call returns.                 *)
(***************************************************************************)
VARIABLES
  hedString,             \* the string under validation
  hedSchemas,            \* the caller's schemas object
  entry,                 \* "validateHedString" or "validateHedEvent"
  checkForWarnings,
  allowPlaceholders,
  doSemanticValidation,
  pc,                    \* the stage the call is about to run
  stagesRun,             \* the stages run so far, in order
  substitutionIssues,
  fullHedStringIssues,
  parsedStringIssues,
  parsedString,          \* <<>> is null
  result                 \* <<>> before the return, then <<[isValid, issues]>>

vars ==
  <<hedString, hedSchemas, entry, checkForWarnings, allowPlaceholders,
    doSemanticValidation, pc, stagesRun, substitutionIssues, fullHedStringIssues,
    parsedStringIssues, parsedString, result>>

Init ==
  /\ hedString \in HedStrings
  /\ hedSchemas \in {NoSchemas, UnbuiltSchemas, BuiltSchemas, BuiltClockTimeSchemas}
  /\ entry = "none"
  /\ checkForWarnings = FALSE
  /\ allowPlaceholders = FALSE
  /\ doSemanticValidation = FALSE
  /\ pc = "ready"
  /\ stagesRun = <<>>
  /\ substitutionIssues = <<>>
  /\ fullHedStringIssues = <<>>
  /\ parsedStringIssues = <<>>
  /\ parsedString = <<>>
  /\ result = <<>>

\* initiallyValidateHedString, lines 658-664: the attributes are built on first use
BuildAttributes(schemas) ==
  IF schemas.isSchemas /\ schemas.attributes = <<>>
  THEN [schemas EXCEPT !.attributes = <<SchemaAttributes>>]
  ELSE schemas

Enter(name, warnings, placeholders) ==
  /\ pc = "ready"
  /\ entry' = name
  /\ checkForWarnings' = warnings
  /\ allowPlaceholders' = placeholders
  /\ doSemanticValidation' = hedSchemas.isSchemas
  /\ hedSchemas' = BuildAttributes(hedSchemas)
  /\ pc' = "validateFullHedString"
  /\ UNCHANGED <<hedString, stagesRun, substitutionIssues, fullHedStringIssues,
                 parsedStringIssues, parsedString, result>>

\* validateHedString(hedString, hedSchemas, checkForWarnings, allowPlaceholders)
ValidateHedString ==
  \E warnings \in BOOLEAN, placeholders \in BOOLEAN :
    Enter("validateHedString", warnings, placeholders)

\* validateHedEvent(hedString, hedSchemas, checkForWarnings)
ValidateHedEvent ==
  \E warnings \in BOOLEAN : Enter("validateHedEvent", warnings, FALSE)

\* faulty variant: a failed structural check does not return
StructuralCheckWithoutReturn ==
  /\ pc = "validateFullHedString"
  /\ LET full == validateFullHedString(hedString)
     IN /\ substitutionIssues' = full.substitutionIssues
        /\ fullHedStringIssues' = full.issues
  /\ result' = result
  /\ pc' = "parseHedString"
  /\ stagesRun' = Append(stagesRun, "structural")
  /\ UNCHANGED <<hedString, hedSchemas, entry, checkForWarnings, allowPlaceholders,
                 doSemanticValidation, parsedStringIssues, parsedString>>

\* lines 665-670; full is the pair validateFullHedString returned
StructuralReturn(full) ==
  /\ substitutionIssues' = full.substitutionIssues
  /\ fullHedStringIssues' = full.issues
  /\ IF Len(full.issues) # 0
     THEN /\ result' = <<[isValid |-> FALSE,
                          issues |-> full.issues \o full.substitutionIssues]>>
          /\ pc' = "returned"
     ELSE /\ result' = result
          /\ pc' = "parseHedString"

\* initiallyValidateHedString, lines 665-670
StructuralCheck ==
  /\ pc = "validateFullHedString"
  /\ StructuralReturn(validateFullHedString(hedString))
  /\ stagesRun' = Append(stagesRun, "structural")
  /\ UNCHANGED <<hedString, hedSchemas, entry, checkForWarnings, allowPlaceholders,
                 doSemanticValidation, parsedStringIssues, parsedString>>

\* faulty variant: the parser's issues are kept but do not stop the call
ParseWithoutReturn ==
  /\ pc = "parseHedString"
  /\ LET parsed == parseHedString(hedString)
     IN /\ parsedStringIssues' = parsed.issues
        /\ parsedString' = <<parsed.parsedString>>
  /\ result' = result
  /\ pc' = "semantic"
  /\ stagesRun' = Append(stagesRun, "parse")
  /\ UNCHANGED <<hedString, hedSchemas, entry, checkForWarnings, allowPlaceholders,
                 doSemanticValidation, substitutionIssues, fullHedStringIssues>>

\* lines 672-680; parsed is the pair parseHedString returned
ParseReturn(parsed) ==
  /\ parsedStringIssues' = parsed.issues
  /\ IF Len(parsed.issues) # 0
     THEN /\ result' = <<[isValid |-> FALSE,
                          issues |-> parsed.issues \o substitutionIssues]>>
          /\ parsedString' = <<>>
          /\ pc' = "returned"
     ELSE /\ result' = result
          /\ parsedString' = <<parsed.parsedString>>
          /\ pc' = "semantic"

\* initiallyValidateHedString, lines 672-680
Parse ==
  /\ pc = "parseHedString"
  /\ ParseReturn(parseHedString(hedString))
  /\ stagesRun' = Append(stagesRun, "parse")
  /\ UNCHANGED <<hedString, hedSchemas, entry, checkForWarnings, allowPlaceholders,
                 doSemanticValidation, substitutionIssues, fullHedStringIssues>>

\* the schema the rules read; without semantic validation no rule reads it
BaseSchemaAttributes ==
  IF hedSchemas.attributes # <<>> THEN hedSchemas.attributes[1] ELSE SchemaAttributes

\* faulty variant: validateHedString also validates the tag levels
HedStringIssuesWithTagLevels(parsed, schema, semantic, warnings, placeholders) ==
  validateIndividualHedTags(parsed, schema, semantic, warnings, placeholders)
    \o validateHedTagLevels(parsed, schema, semantic)
    \o validateHedTagGroups(parsed)

\* validateHedString, lines 708-717
HedStringIssues(parsed, schema, semantic, warnings, placeholders) ==
  validateIndividualHedTags(parsed, schema, semantic, warnings, placeholders)
    \o validateHedTagGroups(parsed)

\* validateHedEvent, lines 751-766
HedEventIssues(parsed, schema, semantic, warnings) ==
  validateTopLevelTags(parsed, schema, semantic, warnings)
    \o validateIndividualHedTags(parsed, schema, semantic, warnings, FALSE)
    \o validateHedTagLevels(parsed, schema, semantic)
    \o validateHedTagGroups(parsed)

\* faulty variant: validity is decided before the substitution issues are added
ReturnValidDespiteSubstitution(issues) ==
  /\ result' = IF Len(issues) = Len(substitutionIssues)
               THEN <<[isValid |-> TRUE, issues |-> issues]>>
               ELSE <<[isValid |-> FALSE, issues |-> issues]>>
  /\ pc' = "returned"
  /\ stagesRun' = Append(stagesRun, "semantic")
  /\ UNCHANGED <<hedString, hedSchemas, entry, checkForWarnings, allowPlaceholders,
                 doSemanticValidation, substitutionIssues, fullHedStringIssues,
                 parsedStringIssues, parsedString>>

\* faulty variant: the sort by length of validateUnits reaches the unit lists of
\* the schema
ReturnSortingSchemaUnits(issues) ==
  /\ result' = IF Len(issues) = 0
               THEN <<[isValid |-> TRUE, issues |-> <<>>]>>
               ELSE <<[isValid |-> FALSE, issues |-> issues]>>
  /\ pc' = "returned"
  /\ stagesRun' = Append(stagesRun, "semantic")
  /\ hedSchemas' =
       IF doSemanticValidation
       THEN [hedSchemas EXCEPT !.attributes = <<[dictionaries |->
              [hedSchemas.attributes[1].dictionaries EXCEPT !.units =
                 [k \in 1..Len(hedSchemas.attributes[1].dictionaries.units) |->
                    [key |-> hedSchemas.attributes[1].dictionaries.units[k].key,
                     value |-> SortByLengthDescending(
                                 hedSchemas.attributes[1].dictionaries.units[k].value)]]]]>>]
       ELSE hedSchemas
  /\ UNCHANGED <<hedString, entry, checkForWarnings, allowPlaceholders,
                 doSemanticValidation, substitutionIssues, fullHedStringIssues,
                 parsedStringIssues, parsedString>>

Return(issues) ==
  /\ result' = IF Len(issues) = 0
               THEN <<[isValid |-> TRUE, issues |-> <<>>]>>
               ELSE <<[isValid |-> FALSE, issues |-> issues]>>
  /\ pc' = "returned"
  /\ stagesRun' = Append(stagesRun, "semantic")
  /\ UNCHANGED <<hedString, hedSchemas, entry, checkForWarnings, allowPlaceholders,
                 doSemanticValidation, substitutionIssues, fullHedStringIssues,
                 parsedStringIssues, parsedString>>

HedStringSemantic ==
  /\ pc = "semantic"
  /\ entry = "validateHedString"
  /\ Return(substitutionIssues
              \o HedStringIssues(TagObjects(parsedString[1]), BaseSchemaAttributes,
                                 doSemanticValidation, checkForWarnings, allowPlaceholders))

HedEventSemantic ==
  /\ pc = "semantic"
  /\ entry = "validateHedEvent"
  /\ Return(substitutionIssues
              \o HedEventIssues(TagObjects(parsedString[1]), BaseSchemaAttributes,
                                doSemanticValidation, checkForWarnings))

Next ==
  \/ ValidateHedString
  \/ ValidateHedEvent
  \/ StructuralCheck
  \/ Parse
  \/ HedStringSemantic
  \/ HedEventSemantic

Spec == Init /\ [][Next]_vars

\* a later call with the schemas object of the call that returned
NextCall ==
  /\ pc = "returned"
  /\ hedString' \in LongerStrings
  /\ entry' = "none"
  /\ checkForWarnings' = FALSE
  /\ allowPlaceholders' = FALSE
  /\ doSemanticValidation' = FALSE
  /\ pc' = "ready"
  /\ stagesRun' = <<>>
  /\ substitutionIssues' = <<>>
  /\ fullHedStringIssues' = <<>>
  /\ parsedStringIssues' = <<>>
  /\ parsedString' = <<>>
  /\ result' = <<>>
  /\ UNCHANGED hedSchemas

\* any sequence of calls that share one schemas object
NextOfCalls ==
  \/ Next
  \/ NextCall

SpecOfCalls == Init /\ [][NextOfCalls]_vars

(***************************************************************************)
(* Properties.                                                             *)
(***************************************************************************)
Returned == pc = "returned" /\ result # <<>>

Ran(stage) == SeqIncludes(stagesRun, stage)

KindsOf(issues) == {issues[i].kind : i \in 1..Len(issues)}

\* how many times an issue occurs in a list
Occurrences(issues, issue) == Cardinality({i \in 1..Len(issues) : issues[i] = issue})

\* every issue of part occurs in issues at least as often as in part
ContainsAll(issues, part) ==
  \A i \in 1..Len(part) : Occurrences(issues, part[i]) >= Occurrences(part, part[i])

\* C1: a returned result is valid if and only if its issue list is empty, on
\* the structural-failure path, the parse-failure path and the completed path
C1_ValidIffNoIssues ==
  Returned => (result[1].isValid <=> Len(result[1].issues) = 0)

\* a call that completed its semantic passes and found issues
C1_Witness ==
  /\ Returned
  /\ Ran("semantic")
  /\ ~result[1].isValid
  /\ Len(result[1].issues) >= 2

\* C2 as stated: after a failed structural check the returned list is exactly
\* the structural issues and no later stage has run
C2_OnlyStructuralIssues ==
  (Returned /\ fullHedStringIssues # <<>>) =>
    /\ result[1].issues = fullHedStringIssues
    /\ stagesRun = <<"structural">>

\* C2 amended: after a failed structural check the returned list is the
\* structural issues followed by the character-substitution issues, the result
\* is invalid, nothing is parsed and no later stage has run
C2_StructuralThenSubstitution ==
  (Returned /\ fullHedStringIssues # <<>>) =>
    /\ ~result[1].isValid
    /\ result[1].issues = fullHedStringIssues \o substitutionIssues
    /\ \A i \in 1..Len(result[1].issues) :
         result[1].issues[i].kind \in
           {"parentheses", "extraDelimiter", "invalidTag", "commaMissing", "invalidCharacter"}
    /\ stagesRun = <<"structural">>
    /\ parsedString = <<>>
    /\ parsedStringIssues = <<>>

\* a structural failure on a string that also has a substituted character and
\* that the parser would have reported on
C2_Witness ==
  /\ Returned
  /\ fullHedStringIssues # <<>>
  /\ substitutionIssues # <<>>
  /\ parseHedString(hedString).issues # <<>>

\* C3: when the structural check passes and the parse reports an issue, the
\* result is invalid, no parsed string is handed on, the semantic passes do not
\* run and the returned list holds character issues only
C3_ParseFailureIsFatal ==
  (Returned /\ fullHedStringIssues = <<>> /\ parsedStringIssues # <<>>) =>
    /\ ~result[1].isValid
    /\ parsedString = <<>>
    /\ ~Ran("semantic")
    /\ ContainsAll(result[1].issues, parsedStringIssues)
    /\ KindsOf(result[1].issues) = {"invalidCharacter"}

\* a parse failure on a string whose tags the semantic rules would report
C3_Witness ==
  /\ Returned
  /\ fullHedStringIssues = <<>>
  /\ parsedStringIssues # <<>>
  /\ doSemanticValidation
  /\ HedStringIssues(TagObjects(parseHedString(hedString).parsedString),
                     SchemaAttributes, TRUE, checkForWarnings, allowPlaceholders) # <<>>

\* C4: every NUL is reported as ASCII NUL with its index in the final result,
\* and the parse (hence the semantic passes) works on the substituted string
C4_ParseOfSubstitutedString ==
  /\ Returned =>
       \A i \in 1..Len(hedString) :
         hedString[i] = NUL =>
           SeqIncludes(result[1].issues, CharacterIssue("ASCII NUL", i - 1, hedString))
  /\ parsedString # <<>> =>
       parsedString[1] = parseHedString(substituteCharacters(hedString).fixedString).parsedString

\* the tag at position i of the parsed tag list and the tag before it
TagAt(tags, i) == tags[i]
PreviousTagAt(tags, i) == IF i = 1 THEN ParsedHedTag(<<>>, <<>>) ELSE tags[i - 1]

\* the issues of the per-tag rules enabled for the call, for tag i
RuleIssuesOfTag(tags, i) ==
  (IF doSemanticValidation
   THEN checkIfTagIsValid(TagAt(tags, i), PreviousTagAt(tags, i), BaseSchemaAttributes,
                          allowPlaceholders, checkForWarnings)
          \o checkIfTagUnitClassUnitsAreValid(TagAt(tags, i), BaseSchemaAttributes,
                                              allowPlaceholders)
          \o checkIfTagRequiresChild(TagAt(tags, i), BaseSchemaAttributes)
   ELSE <<>>)
  \o (IF doSemanticValidation /\ checkForWarnings
      THEN checkIfTagUnitClassUnitsExist(TagAt(tags, i), BaseSchemaAttributes,
                                         allowPlaceholders)
      ELSE <<>>)
  \o (IF checkForWarnings
      THEN checkCapitalization(TagAt(tags, i), BaseSchemaAttributes, doSemanticValidation)
      ELSE <<>>)

\* C5: once the structural check and the parse have passed, the returned list
\* holds the issues of every enabled per-tag rule for every tag and the tilde
\* issue of every group, whatever the other tags and rules reported
C5_SemanticIssuesAccumulate ==
  (Returned /\ Ran("semantic")) =>
    LET parsed == TagObjects(parsedString[1])
    IN /\ \A i \in 1..Len(parsed.tags) :
            ContainsAll(result[1].issues, RuleIssuesOfTag(parsed.tags, i))
       /\ \A g \in 1..Len(parsed.tagGroups) :
            ContainsAll(result[1].issues,
                        checkNumberOfGroupTildes(parsed.tagGroupStrings[g],
                                                 parsed.tagGroups[g]))
       /\ ContainsAll(result[1].issues, substitutionIssues)

\* two tags of one string are both reported, the second after the first failed
C5_Witness ==
  /\ Returned
  /\ Ran("semantic")
  /\ doSemanticValidation
  /\ LET parsed == TagObjects(parsedString[1])
     IN \E i, j \in 1..Len(parsed.tags) :
          /\ i < j
          /\ RuleIssuesOfTag(parsed.tags, i) # <<>>
          /\ RuleIssuesOfTag(parsed.tags, j) # <<>>
          /\ KindsOf(RuleIssuesOfTag(parsed.tags, i)) # KindsOf(RuleIssuesOfTag(parsed.tags, j))

WarningKinds == {"extension", "capitalization", "unitClassDefaultUsed"}

FatalIssuesOf(string) ==
  IF validateFullHedString(string).issues # <<>>
  THEN validateFullHedString(string).issues \o substituteCharacters(string).issues
  ELSE IF parseHedString(string).issues # <<>>
  THEN parseHedString(string).issues \o substituteCharacters(string).issues
  ELSE <<>>

EventOnlyKinds == {"requiredPrefixMissing", "duplicateTag", "multipleUniqueTags"}

\* C7: validateHedString never returns a requiredPrefixMissing, duplicateTag or
\* multipleUniqueTags issue; validateHedEvent returns the duplicate issues of
\* the top level and of every group, with a schema the unique-tag issues of the
\* top level, and with a schema and warnings the required-tag issues
C7_EventOnlyChecks ==
  /\ (Returned /\ entry = "validateHedString") =>
       KindsOf(result[1].issues) \cap EventOnlyKinds = {}
  /\ (Returned /\ entry = "validateHedEvent" /\ Ran("semantic")) =>
       LET parsed == TagObjects(parsedString[1])
       IN /\ ContainsAll(result[1].issues, checkForDuplicateTags(parsed.topLevelTags))
          /\ \A g \in 1..Len(parsed.tagGroups) :
               ContainsAll(result[1].issues, checkForDuplicateTags(parsed.tagGroups[g]))
          /\ doSemanticValidation =>
               ContainsAll(result[1].issues,
                           checkForMultipleUniqueTags(parsed.topLevelTags, BaseSchemaAttributes))
          /\ (doSemanticValidation /\ checkForWarnings) =>
               ContainsAll(result[1].issues,
                           checkForRequiredTags(parsed, BaseSchemaAttributes))

\* validateHedString returns on a string for which validateHedEvent reports a
\* missing required tag, a duplicate and a repeated unique tag
C7_Witness ==
  /\ Returned
  /\ Ran("semantic")
  /\ entry = "validateHedString"
  /\ doSemanticValidation
  /\ EventOnlyKinds \subseteq
       KindsOf(HedEventIssues(TagObjects(parsedString[1]), BaseSchemaAttributes, TRUE, TRUE))

\* the number of occurrences of a character, by positions
PositionsOf(string, character) == {i \in 1..Len(string) : string[i] = character}

\* C8: the structural check reports one parentheses issue with the exact
\* numbers of '(' and ')' when they differ, and none when they are equal
C8_ParenthesesCounts ==
  Ran("structural") =>
    LET opening == Cardinality(PositionsOf(hedString, openingGroupCharacter))
        closing == Cardinality(PositionsOf(hedString, closingGroupCharacter))
        issues == IssuesOfKind(fullHedStringIssues, "parentheses")
    IN IF opening # closing
       THEN /\ Len(issues) = 1
            /\ issues[1].opening = opening
            /\ issues[1].closing = closing
       ELSE issues = <<>>

\* more closing than opening parentheses, both present
C8_Witness ==
  /\ Ran("structural")
  /\ Cardinality(PositionsOf(hedString, openingGroupCharacter)) >= 1
  /\ Cardinality(PositionsOf(hedString, closingGroupCharacter))
       > Cardinality(PositionsOf(hedString, openingGroupCharacter))

\* the string the delimiter scan reads
ScannedString == substituteCharacters(hedString).fixedString

IsDelimiterAt(string, i) == string[i] \in {comma, tilde}

\* the characters between position i and the delimiter before it (or the start)
SegmentBefore(string, i) ==
  LET earlier == {j \in 1..(i - 1) : IsDelimiterAt(string, j)}
      from == IF earlier = {} THEN 0 ELSE CHOOSE j \in earlier : \A k \in earlier : k <= j
  IN SubSeq(string, from + 1, i - 1)

\* a delimiter with nothing but white space since the previous delimiter
EmptyBefore(string, i) ==
  /\ IsDelimiterAt(string, i)
  /\ \A k \in 1..Len(SegmentBefore(string, i)) : IsWhitespace(SegmentBefore(string, i)[k])

\* a delimiter with no tag text since the previous delimiter: only white space
\* and opening parentheses
NoTokenBefore(string, i) ==
  /\ IsDelimiterAt(string, i)
  /\ \A k \in 1..Len(SegmentBefore(string, i)) :
       \/ IsWhitespace(SegmentBefore(string, i)[k])
       \/ SegmentBefore(string, i)[k] = openingGroupCharacter

\* the first character after a ')' that is no delimiter and no parenthesis
CommaMissingAt(string, i) ==
  /\ string[i] \notin {comma, tilde, closingGroupCharacter, openingGroupCharacter}
  /\ ~IsWhitespace(string[i])
  /\ \E j \in 1..(i - 1) :
       /\ string[j] = closingGroupCharacter
       /\ \A k \in (j + 1)..(i - 1) : IsWhitespace(string[k])

\* the position at which the scan stops: the first missing comma, or the end
ScanEnd(string) ==
  IF \E i \in 1..Len(string) : CommaMissingAt(string, i)
  THEN CHOOSE i \in 1..Len(string) :
         /\ CommaMissingAt(string, i)
         /\ \A j \in 1..(i - 1) : ~CommaMissingAt(string, j)
  ELSE Len(string) + 1

\* the position of the last character the scan accepted, 0 when there is none
LastAccepted(string) ==
  LET accepted == {i \in 1..(ScanEnd(string) - 1) :
                     ~IsWhitespace(string[i]) /\ ~NoTokenBefore(string, i)}
  IN IF accepted = {} THEN 0 ELSE CHOOSE i \in accepted : \A k \in accepted : k <= i

ExtraDelimiterIssues == IssuesOfKind(fullHedStringIssues, "extraDelimiter")

\* the part of C9 about the end of the string and about well-formed strings
C9_FinalAndNone(string) ==
  /\ (LastAccepted(string) # 0 /\ IsDelimiterAt(string, LastAccepted(string))) =>
       /\ Occurrences(ExtraDelimiterIssues,
                      ExtraDelimiterIssue(string[LastAccepted(string)],
                                          LastAccepted(string) - 1, string)) = 1
       /\ ExtraDelimiterIssues[Len(ExtraDelimiterIssues)].index = LastAccepted(string) - 1
  /\ ((\A i \in 1..Len(string) : ~NoTokenBefore(string, i))
        /\ (\A i \in 1..Len(string) :
              (\A k \in (i + 1)..Len(string) : IsWhitespace(string[k]))
                => ~IsDelimiterAt(string, i)))
       => ExtraDelimiterIssues = <<>>

\* C9 as stated: every comma or tilde with only white space since the previous
\* delimiter (or the start) has exactly one extraDelimiter issue with its
\* character and index, a dangling last delimiter has one, and a string whose
\* delimiters all separate non-empty tokens has none
C9_EveryEmptyDelimiter ==
  Ran("structural") =>
    /\ \A i \in 1..Len(ScannedString) :
         EmptyBefore(ScannedString, i) =>
           Occurrences(ExtraDelimiterIssues,
                       ExtraDelimiterIssue(ScannedString[i], i - 1, ScannedString)) = 1
    /\ C9_FinalAndNone(ScannedString)

\* C9 amended: the same for every such comma or tilde that lies before the
\* position at which the scan stops (the first character that misses a comma
\* after a closing parenthesis); an opening parenthesis alone is not a token
C9_EveryEmptyDelimiterScanned ==
  Ran("structural") =>
    /\ \A i \in 1..(ScanEnd(ScannedString) - 1) :
         EmptyBefore(ScannedString, i) =>
           Occurrences(ExtraDelimiterIssues,
                       ExtraDelimiterIssue(ScannedString[i], i - 1, ScannedString)) = 1
    /\ C9_FinalAndNone(ScannedString)

\* a leading extra delimiter and a dangling last one in the same string
C9_Witness ==
  /\ Ran("structural")
  /\ \E i \in 1..Len(ScannedString) : EmptyBefore(ScannedString, i)
  /\ LastAccepted(ScannedString) # 0
  /\ IsDelimiterAt(ScannedString, LastAccepted(ScannedString))
  /\ Len(ExtraDelimiterIssues) = 2

\* C10: every tag of topLevelTags and every tag that is a member of a list of
\* tagGroups (the members that are not themselves groups) is in tags
C10_TagsContainEveryTag ==
  parsedString # <<>> =>
    LET parsed == parsedString[1]
    IN /\ \A i \in 1..Len(parsed.topLevelTags) :
            SeqIncludes(parsed.tags, parsed.topLevelTags[i])
       /\ \A g \in 1..Len(parsed.tagGroups) :
            \A i \in 1..Len(parsed.tagGroups[g]) :
              ~hedStringIsAGroup(parsed.tagGroups[g][i]) =>
                SeqIncludes(parsed.tags, parsed.tagGroups[g][i])

\* C11: after a successful parse no two entries of tags have the same
\* formatted tag
C11_TagsUniqueByFormattedTag ==
  parsedString # <<>> =>
    \A i, j \in 1..Len(parsedString[1].formattedTags) :
      parsedString[1].formattedTags[i] = parsedString[1].formattedTags[j] => i = j

\* C12: formatting a formatted tag again yields the same value, for every
\* formatted tag and formatted top-level tag the parser produces
C12_FormatIdempotent ==
  parsedString # <<>> =>
    /\ \A i \in 1..Len(parsedString[1].formattedTags) :
         formatHedTag(parsedString[1].formattedTags[i], FALSE)
           = parsedString[1].formattedTags[i]
    /\ \A i \in 1..Len(parsedString[1].formattedTopLevelTags) :
         formatHedTag(parsedString[1].formattedTopLevelTags[i], FALSE)
           = parsedString[1].formattedTopLevelTags[i]

\* the tags of the parsed string that belong to a unit class
UnitClassTagIndices ==
  IF parsedString # <<>> /\ doSemanticValidation
  THEN {i \in 1..Len(parsedString[1].tags) :
          isUnitClassTag(parsedString[1].formattedTags[i], BaseSchemaAttributes)}
  ELSE {}

OriginalUnitValue(i) == getTagName(parsedString[1].tags[i])
FormattedUnitValue(i) == getTagName(parsedString[1].formattedTags[i])
CandidateUnits(i) == getTagUnitClassUnits(parsedString[1].formattedTags[i], BaseSchemaAttributes)

\* the candidate list in every order
Reorderings(units) ==
  {[k \in 1..Len(units) |-> units[p[k]]] :
     p \in {q \in [1..Len(units) -> 1..Len(units)] :
              \A a, b \in 1..Len(units) : q[a] = q[b] => a = b}}

\* the orders in which units of the same length keep their order
ReorderingsKeepingTies(units) ==
  {[k \in 1..Len(units) |-> units[p[k]]] :
     p \in {q \in [1..Len(units) -> 1..Len(units)] :
              /\ \A a, b \in 1..Len(units) : q[a] = q[b] => a = b
              /\ \A a, b \in 1..Len(units) :
                   a < b /\ Len(units[q[a]]) = Len(units[q[b]]) => q[a] < q[b]}}

\* the remainder when the unit (or its plural) is stripped; <<>> when it does not match
StrippedWith(i, unit) ==
  FirstStripped(OriginalUnitValue(i), FormattedUnitValue(i), unit,
                getValidDerivativeUnits(unit, BaseSchemaAttributes), BaseSchemaAttributes)

UnitsThatStrip(i) ==
  {k \in 1..Len(CandidateUnits(i)) : StrippedWith(i, CandidateUnits(i)[k]) # <<>>}

RemainderOf(i, units) ==
  validateUnits(OriginalUnitValue(i), FormattedUnitValue(i), units, BaseSchemaAttributes)

\* the remainder is the one of a longest unit that matches, and the value
\* itself when no unit matches
LongestUnitStripped(i) ==
  IF UnitsThatStrip(i) = {}
  THEN RemainderOf(i, CandidateUnits(i)) = FormattedUnitValue(i)
  ELSE \E k \in UnitsThatStrip(i) :
         /\ \A l \in UnitsThatStrip(i) : Len(CandidateUnits(i)[l]) <= Len(CandidateUnits(i)[k])
         /\ RemainderOf(i, CandidateUnits(i)) = StrippedWith(i, CandidateUnits(i)[k])[1]

\* C13 as stated: the longest matching unit is stripped and every order of the
\* candidate list gives the same remainder
C13_AnyOrderOfUnits ==
  \A i \in UnitClassTagIndices :
    /\ LongestUnitStripped(i)
    /\ \A units \in Reorderings(CandidateUnits(i)) :
         RemainderOf(i, units) = RemainderOf(i, CandidateUnits(i))

\* C13: the longest matching unit is stripped, and the remainder is the same
\* for every order of the candidate list in which units of equal length keep
\* their order; with the value "3 second" the remainder is "3"
C13_LongestUnitFirst ==
  \A i \in UnitClassTagIndices :
    /\ LongestUnitStripped(i)
    /\ \A units \in ReorderingsKeepingTies(CandidateUnits(i)) :
         RemainderOf(i, units) = RemainderOf(i, CandidateUnits(i))
    /\ FormattedUnitValue(i) = <<"3", " ">> \o Unit_second =>
         RemainderOf(i, CandidateUnits(i)) = <<"3">>

\* a value that a shorter and a longer unit both match, stripped to "3"
C13_Witness ==
  \E i \in UnitClassTagIndices :
    /\ \E k, l \in UnitsThatStrip(i) : Len(CandidateUnits(i)[k]) < Len(CandidateUnits(i)[l])
    /\ RemainderOf(i, CandidateUnits(i)) = <<"3">>

\* the kinds of issue the existence rule reports
ExistenceKinds == {"invalidTag", "extraCommaOrInvalid", "extension", "invalidPlaceholder"}

\* a literal schema entry, a tag whose form with '#' for the final segment
\* takes a value, or the tilde
ValidByExistence(formattedTag) ==
  \/ HasKey(BaseSchemaAttributes.dictionaries.tags, formattedTag)
  \/ HasKey(BaseSchemaAttributes.dictionaries.takesValue,
            replaceTagNameWithPound(formattedTag))
  \/ formattedTag = <<tilde>>

\* the returned issues of the existence rule that name a tag
ExistenceIssuesNaming(originalTag) ==
  {k \in 1..Len(result[1].issues) :
     /\ result[1].issues[k].kind \in ExistenceKinds
     /\ result[1].issues[k].tag = originalTag}

\* C14: a tag that is a literal schema entry, or whose form with '#' for the
\* final segment takes a value, or that is the tilde gets no issue of the
\* existence rule; every other tag gets at most one, of the kinds invalidTag,
\* extraCommaOrInvalid, extension and invalidPlaceholder
C14_ExistenceRule ==
  (Returned /\ Ran("semantic") /\ doSemanticValidation) =>
    \A i \in 1..Len(parsedString[1].tags) :
      /\ ValidByExistence(parsedString[1].formattedTags[i]) =>
            ExistenceIssuesNaming(parsedString[1].tags[i]) = {}
      /\ Cardinality(ExistenceIssuesNaming(parsedString[1].tags[i])) <= 1
      /\ checkIfTagIsValid(TagAt(TagObjects(parsedString[1]).tags, i),
                           PreviousTagAt(TagObjects(parsedString[1]).tags, i),
                           BaseSchemaAttributes, allowPlaceholders, checkForWarnings)
           \in {<<>>} \cup {<<issue>> : issue \in
                   {result[1].issues[k] : k \in ExistenceIssuesNaming(parsedString[1].tags[i])}}

\* a value and a tilde pass, and a tag that is not in the schema gets one issue
C14_Witness ==
  /\ Returned
  /\ Ran("semantic")
  /\ doSemanticValidation
  /\ \E i, j \in 1..Len(parsedString[1].tags) :
       /\ ValidByExistence(parsedString[1].formattedTags[i])
       /\ ~HasKey(BaseSchemaAttributes.dictionaries.tags, parsedString[1].formattedTags[i])
       /\ ~ValidByExistence(parsedString[1].formattedTags[j])
       /\ Cardinality(ExistenceIssuesNaming(parsedString[1].tags[j])) = 1

\* the returned existence issues that name tag i of the parsed string
ExistenceIssuesOfTag(i) ==
  {result[1].issues[k] : k \in ExistenceIssuesNaming(parsedString[1].tags[i])}

\* the tag before tag i in the parsed tag list takes a value
PreviousTagTakesValue(i) ==
  tagTakesValue(PreviousTagAt(TagObjects(parsedString[1]).tags, i).formattedTag,
                BaseSchemaAttributes)

ExtraCommaIssue(i) ==
  [generateIssue("extraCommaOrInvalid") EXCEPT
     !.tag = parsedString[1].tags[i],
     !.previousTag = PreviousTagAt(TagObjects(parsedString[1]).tags, i).originalTag]

\* the issues of a permitted extension
ExtensionIssues(i) ==
  IF checkForWarnings THEN {TagIssue("extension", parsedString[1].tags[i])} ELSE {}

\* C15 as stated: a tag that is not valid by the existence rule and has an
\* extensionAllowed ancestor is a permitted extension (a warning when warnings
\* are requested), unless the preceding tag takes a value: then it is reported
\* as extraCommaOrInvalid (stated for the tags without '#')
C15_ExtensionUnlessPreviousTakesValue ==
  (Returned /\ Ran("semantic") /\ doSemanticValidation) =>
    \A i \in 1..Len(parsedString[1].tags) :
      (/\ ~ValidByExistence(parsedString[1].formattedTags[i])
       /\ ~Includes(parsedString[1].formattedTags[i], pound)
       /\ isExtensionAllowedTag(parsedString[1].formattedTags[i], BaseSchemaAttributes)) =>
        ExistenceIssuesOfTag(i) = IF PreviousTagTakesValue(i)
                                  THEN {ExtraCommaIssue(i)}
                                  ELSE ExtensionIssues(i)

\* C15, amended: a tag that is not valid by the existence rule (and is not a
\* placeholder tag of a call that allows placeholders) is a permitted extension
\* when it has an extensionAllowed ancestor, whatever the preceding tag; when
\* it has none and the preceding tag takes a value it is extraCommaOrInvalid
C15_ExtensionWhateverThePreviousTag ==
  (Returned /\ Ran("semantic") /\ doSemanticValidation) =>
    \A i \in 1..Len(parsedString[1].tags) :
      (/\ ~ValidByExistence(parsedString[1].formattedTags[i])
       /\ ~(allowPlaceholders /\ Includes(parsedString[1].formattedTags[i], pound))) =>
        IF isExtensionAllowedTag(parsedString[1].formattedTags[i], BaseSchemaAttributes)
        THEN ExistenceIssuesOfTag(i) = ExtensionIssues(i)
        ELSE PreviousTagTakesValue(i) => ExistenceIssuesOfTag(i) = {ExtraCommaIssue(i)}

\* an extension after a tag that takes a value, reported as an extension
C15_Witness ==
  /\ Returned
  /\ Ran("semantic")
  /\ doSemanticValidation
  /\ checkForWarnings
  /\ \E i \in 1..Len(parsedString[1].tags) :
       /\ ~ValidByExistence(parsedString[1].formattedTags[i])
       /\ isExtensionAllowedTag(parsedString[1].formattedTags[i], BaseSchemaAttributes)
       /\ PreviousTagTakesValue(i)
       /\ ExistenceIssuesOfTag(i) = {TagIssue("extension", parsedString[1].tags[i])}

\* C16: with placeholders allowed and warnings on, a tag containing '#' that is
\* not a schema entry and whose '#'-form does not take a value yields exactly
\* one invalidTag issue naming the original tag, and a '#' in the value
\* position of a value-taking tag yields no existence issue
C16_PlaceholderIsInvalidTag ==
  (Returned /\ Ran("semantic") /\ doSemanticValidation
     /\ allowPlaceholders /\ checkForWarnings) =>
    \A i \in 1..Len(parsedString[1].tags) :
      Includes(parsedString[1].formattedTags[i], pound) =>
        ExistenceIssuesOfTag(i) =
          IF ValidByExistence(parsedString[1].formattedTags[i])
          THEN {}
          ELSE {TagIssue("invalidTag", parsedString[1].tags[i])}

\* a value made of digits only
BareNumber(value) == value # <<>> /\ \A k \in 1..Len(value) : value[k] \in Digits

\* the returned unitClassDefaultUsed issues that name tag i
DefaultUsedIssuesOfTag(i) ==
  {result[1].issues[k] : k \in {n \in 1..Len(result[1].issues) :
     /\ result[1].issues[n].kind = "unitClassDefaultUsed"
     /\ result[1].issues[n].tag = parsedString[1].tags[i]}}

\* the default unit the schema gives the unit class of tag i: s for the class
\* time of d/#, hour:min for the class clockTime of c/#
DefaultUnitInSchema(i) ==
  IF StartsWith(parsedString[1].formattedTags[i], <<"d", "/">>) THEN Unit_s ELSE Unit_hourMin

ValuePassesFormatCheck(i) ==
  validateValue(getTagName(parsedString[1].formattedTags[i]), allowPlaceholders)

\* C18 as stated: unitClassDefaultUsed is issued exactly when the '#'-form of
\* the tag is a unit-class tag and its terminal value fails the
\* numeric/placeholder format check; a value that passes produces no issue
C18_DefaultUsedWhenValueFails ==
  (Returned /\ Ran("semantic") /\ doSemanticValidation /\ checkForWarnings) =>
    \A i \in 1..Len(parsedString[1].tags) :
      DefaultUsedIssuesOfTag(i) # {} <=>
        (i \in UnitClassTagIndices /\ ~ValuePassesFormatCheck(i))

\* C18, amended: with warnings requested, unitClassDefaultUsed is issued
\* exactly when the '#'-form of the tag is a unit-class tag and its terminal
\* value passes the numeric/placeholder format check; a value that fails it
\* produces no unitClassDefaultUsed issue, and without warnings none is issued
C18_DefaultUsedWhenValuePasses ==
  (Returned /\ Ran("semantic") /\ doSemanticValidation) =>
    \A i \in 1..Len(parsedString[1].tags) :
      DefaultUsedIssuesOfTag(i) # {} <=>
        (checkForWarnings /\ i \in UnitClassTagIndices /\ ValuePassesFormatCheck(i))

\* a placeholder value of a unit-class tag, reported with the default unit,
\* in a call that allows placeholders
C18_Witness ==
  /\ Returned
  /\ Ran("semantic")
  /\ doSemanticValidation
  /\ allowPlaceholders
  /\ \E i \in UnitClassTagIndices :
       /\ FormattedUnitValue(i) = <<pound>>
       /\ DefaultUsedIssuesOfTag(i) # {}

\* the unit-class tags that are not literal schema entries
UnitValueTagIndices ==
  {i \in UnitClassTagIndices :
     ~HasKey(BaseSchemaAttributes.dictionaries.tags, parsedString[1].formattedTags[i])}

\* the returned unitClassInvalidUnit issues that name tag i
InvalidUnitIssuesOfTag(i) ==
  {result[1].issues[k] : k \in {n \in 1..Len(result[1].issues) :
     /\ result[1].issues[n].kind = "unitClassInvalidUnit"
     /\ result[1].issues[n].tag = parsedString[1].tags[i]}}

\* the value of tag i is a number or placeholder once a legal unit is stripped
StrippedValueIsValid(i) ==
  validateValue(RemainderOf(i, CandidateUnits(i)), allowPlaceholders)

\* tag i belongs to the unit class and the schema has that class
OfUnitClass(i, unitClass) ==
  /\ HasKey(BaseSchemaAttributes.dictionaries.units, unitClass)
  /\ SeqIncludes(getTagUnitClasses(parsedString[1].formattedTags[i], BaseSchemaAttributes),
                 unitClass)

\* a clock-face or date-time value of a tag of the class clockTime or dateTime
ClockOrDateTimeValue(i) ==
  \/ OfUnitClass(i, "clockTime") /\ isClockFaceTime(FormattedUnitValue(i))
  \/ OfUnitClass(i, "dateTime") /\ isDateTime(FormattedUnitValue(i))

\* a clock-face value of a tag of the class time, in a schema without clockTime
ClockValueOfTimeClass(i) ==
  /\ ~HasKey(BaseSchemaAttributes.dictionaries.units, "clockTime")
  /\ OfUnitClass(i, "time")
  /\ isClockFaceTime(FormattedUnitValue(i))

\* the legal units of tag i in sorted order, joined with commas
SortedLegalUnits(i) ==
  {JoinWithComma(units) : units \in
     {u \in Reorderings(CandidateUnits(i)) :
        \A a, b \in 1..Len(u) : a < b => ~StringBefore(u[b], u[a])}}

\* the one issue the rule reports for tag i
TheInvalidUnitIssues(i) ==
  {[generateIssue("unitClassInvalidUnit") EXCEPT
      !.tag = parsedString[1].tags[i], !.unitClassUnits = joined] :
     joined \in SortedLegalUnits(i)}

\* C19 as stated: a unit-class tag that is not a literal schema entry gets
\* exactly one unitClassInvalidUnit issue, with the original tag and the legal
\* units sorted and comma-joined, when its value is not a number or placeholder
\* after a legal unit is stripped; it gets none when the value is valid or is
\* a clock-face/date-time value of an applicable clockTime/dateTime class
C19_InvalidUnitUnlessClockTimeClass ==
  (Returned /\ Ran("semantic") /\ doSemanticValidation) =>
    \A i \in UnitValueTagIndices :
      /\ (StrippedValueIsValid(i) \/ ClockOrDateTimeValue(i)) => InvalidUnitIssuesOfTag(i) = {}
      /\ ~(StrippedValueIsValid(i) \/ ClockOrDateTimeValue(i)) =>
            /\ InvalidUnitIssuesOfTag(i) = TheInvalidUnitIssues(i)
            /\ Cardinality(InvalidUnitIssuesOfTag(i)) = 1

\* C19, amended: as stated, and a clock-face value of a tag of the class time
\* gets no issue either when the schema has no clockTime class
C19_InvalidUnitUnlessClockValue ==
  (Returned /\ Ran("semantic") /\ doSemanticValidation) =>
    \A i \in UnitValueTagIndices :
      IF StrippedValueIsValid(i) \/ ClockOrDateTimeValue(i) \/ ClockValueOfTimeClass(i)
      THEN InvalidUnitIssuesOfTag(i) = {}
      ELSE /\ InvalidUnitIssuesOfTag(i) = TheInvalidUnitIssues(i)
           /\ Cardinality(InvalidUnitIssuesOfTag(i)) = 1

\* a value with no legal unit has been reported with the four units of d/#
C19_Witness ==
  /\ Returned
  /\ Ran("semantic")
  /\ doSemanticValidation
  /\ \E i \in UnitValueTagIndices :
       /\ ~StrippedValueIsValid(i)
       /\ Len(CandidateUnits(i)) = 4
       /\ \E issue \in InvalidUnitIssuesOfTag(i) :
            issue.unitClassUnits = Unit_foot \o <<comma>> \o Unit_mile \o <<comma>>
                                     \o Unit_s \o <<comma>> \o Unit_second

\* the tag lists of one level each: the top level and every group
TagLevels ==
  <<TagObjects(parsedString[1]).topLevelTags>> \o TagObjects(parsedString[1]).tagGroups

\* the formatted tags, other than the tilde, that occur more than once in a list
RepeatedTags(tagList) ==
  {tagList[i].formattedTag : i \in {n \in 1..Len(tagList) :
     /\ tagList[n].formattedTag # <<tilde>>
     /\ \E m \in 1..Len(tagList) : m # n /\ tagList[m].formattedTag = tagList[n].formattedTag}}

\* C20: for the tag list of a level and every permutation of it
\* checkForDuplicateTags returns the same number of duplicateTag issues, one
\* for every formatted tag that occurs more than once however many times it
\* occurs, and none for the tilde
C20_OneIssuePerRepeatedTag ==
  (Returned /\ Ran("semantic") /\ entry = "validateHedEvent") =>
    \A l \in 1..Len(TagLevels) :
      /\ \A permuted \in Reorderings(TagLevels[l]) :
            Len(checkForDuplicateTags(permuted)) = Len(checkForDuplicateTags(TagLevels[l]))
      /\ Len(checkForDuplicateTags(TagLevels[l])) = Cardinality(RepeatedTags(TagLevels[l]))
      /\ ContainsAll(result[1].issues, checkForDuplicateTags(TagLevels[l]))

\* the returned issues of a kind
ReturnedIssuesOfKind(kind) ==
  {k \in 1..Len(result[1].issues) : result[1].issues[k].kind = kind}

\* the formatted tags, other than the tilde, of a tag list
FormattedTagsOf(tagList) ==
  {tagList[i].formattedTag : i \in 1..Len(tagList)} \ {<<tilde>>}

\* C21: duplicates are looked for in the top-level list and in the direct
\* members of each group separately: a duplicateTag issue is returned when two
\* equal tags stand in one level, and none when every tag occurs at most once
\* in its level, even if it also occurs in another level
C21_DuplicatesPerLevel ==
  (Returned /\ Ran("semantic") /\ entry = "validateHedEvent") =>
    /\ (ReturnedIssuesOfKind("duplicateTag") = {}) <=>
          (\A l \in 1..Len(TagLevels) : RepeatedTags(TagLevels[l]) = {})
    /\ \A k \in ReturnedIssuesOfKind("duplicateTag") :
          \E l \in 1..Len(TagLevels) :
            formatHedTag(result[1].issues[k].tag, FALSE) \in RepeatedTags(TagLevels[l])

\* a tag of the top level occurs again in a group and nothing is reported
C21_Witness ==
  /\ Returned
  /\ Ran("semantic")
  /\ entry = "validateHedEvent"
  /\ ReturnedIssuesOfKind("duplicateTag") = {}
  /\ \E l, m \in 1..Len(TagLevels) :
       l # m /\ FormattedTagsOf(TagLevels[l]) \cap FormattedTagsOf(TagLevels[m]) # {}

\* the tags of the whole string that start with a prefix: their level and
\* their place in it
TagsWithPrefix(prefix) ==
  {place \in {<<l, i>> : l \in 1..Len(TagLevels), i \in 1..Len(hedString)} :
     /\ place[2] <= Len(TagLevels[place[1]])
     /\ StartsWith(TagLevels[place[1]][place[2]].formattedTag, prefix)}

\* the returned multipleUniqueTags issues that name a prefix
UniqueIssuesNaming(prefix) ==
  {k \in ReturnedIssuesOfKind("multipleUniqueTags") : result[1].issues[k].tag = prefix}

\* C22: in event validation with a schema, a unique prefix that two or more
\* tags of the string start with, at top level or inside any group, gets
\* exactly one multipleUniqueTags issue, and a prefix that at most one tag
\* starts with gets none
C22_UniqueInWholeString ==
  (Returned /\ Ran("semantic") /\ entry = "validateHedEvent" /\ doSemanticValidation) =>
    \A u \in 1..Len(BaseSchemaAttributes.dictionaries.unique) :
      Cardinality(UniqueIssuesNaming(BaseSchemaAttributes.dictionaries.unique[u].key)) =
        IF Cardinality(TagsWithPrefix(BaseSchemaAttributes.dictionaries.unique[u].key)) >= 2
        THEN 1
        ELSE 0

\* the returned requiredPrefixMissing issues that name a prefix
RequiredIssuesNaming(prefix) ==
  {k \in ReturnedIssuesOfKind("requiredPrefixMissing") :
     result[1].issues[k].tagPrefix = prefix}

\* some tag of a tag list starts with the prefix
SomeTagStartsWith(tagList, prefix) ==
  \E i \in 1..Len(tagList) : StartsWith(tagList[i].formattedTag, prefix)

\* C23: every required prefix that no top-level tag starts with gets exactly
\* one requiredPrefixMissing issue and every other required prefix none; a tag
\* inside a group does not satisfy the requirement
C23_RequiredAtTopLevel ==
  (Returned /\ Ran("semantic") /\ entry = "validateHedEvent"
     /\ doSemanticValidation /\ checkForWarnings) =>
    /\ \A r \in 1..Len(BaseSchemaAttributes.dictionaries.required) :
          Cardinality(RequiredIssuesNaming(BaseSchemaAttributes.dictionaries.required[r].key)) =
            IF SomeTagStartsWith(TagObjects(parsedString[1]).topLevelTags,
                                 BaseSchemaAttributes.dictionaries.required[r].key)
            THEN 0
            ELSE 1
    /\ \A k \in ReturnedIssuesOfKind("requiredPrefixMissing") :
          \E r \in 1..Len(BaseSchemaAttributes.dictionaries.required) :
            result[1].issues[k].tagPrefix = BaseSchemaAttributes.dictionaries.required[r].key

\* a required prefix stands inside a group only and is reported missing, with
\* the other required prefix: two issues
C23_Witness ==
  /\ Returned
  /\ Ran("semantic")
  /\ entry = "validateHedEvent"
  /\ doSemanticValidation
  /\ checkForWarnings
  /\ Cardinality(ReturnedIssuesOfKind("requiredPrefixMissing")) = 2
  /\ \E g \in 1..Len(TagObjects(parsedString[1]).tagGroups) :
       SomeTagStartsWith(TagObjects(parsedString[1]).tagGroups[g], Tag_b)

\* the tildes among the direct members of group g
DirectTildes(g) ==
  {i \in 1..Len(parsedString[1].tagGroups[g]) : parsedString[1].tagGroups[g][i] = <<tilde>>}

\* the returned tooManyTildes issues that name a group's text
TildeIssuesNaming(groupText) ==
  {k \in ReturnedIssuesOfKind("tooManyTildes") : result[1].issues[k].tagGroup = groupText}

\* C24: a group with at most two tildes among its direct members gets no
\* tooManyTildes issue and a group with three or more exactly one, naming the
\* full original text of the group; the tildes of a nested group count for the
\* nested group only
C24_TildeLimitPerGroup ==
  (Returned /\ Ran("semantic")) =>
    /\ \A g \in 1..Len(parsedString[1].tagGroups) :
          Cardinality(TildeIssuesNaming(parsedString[1].tagGroupStrings[g])) =
            Cardinality({h \in 1..Len(parsedString[1].tagGroups) :
                           /\ parsedString[1].tagGroupStrings[h] = parsedString[1].tagGroupStrings[g]
                           /\ Cardinality(DirectTildes(h)) >= 3})
    /\ \A k \in ReturnedIssuesOfKind("tooManyTildes") :
          \E g \in 1..Len(parsedString[1].tagGroups) :
            result[1].issues[k].tagGroup = parsedString[1].tagGroupStrings[g]

\* a nested group with three tildes is reported and its parent is not
C24_Witness ==
  /\ Returned
  /\ Ran("semantic")
  /\ \E g, h \in 1..Len(parsedString[1].tagGroups) :
       /\ Cardinality(DirectTildes(g)) = 3
       /\ Cardinality(TildeIssuesNaming(parsedString[1].tagGroupStrings[g])) = 1
       /\ DirectTildes(h) = {}
       /\ getCharacterCount(parsedString[1].tagGroupStrings[h], tilde) = 3
       /\ TildeIssuesNaming(parsedString[1].tagGroupStrings[h]) = {}

\* the issues of the stages before the semantic passes, in the order of the stages
IssuesInStageOrder == substitutionIssues \o fullHedStringIssues \o parsedStringIssues

\* C25: the returned list is in insertion order: the issues of the character
\* substitution, then of the structural check, then of the parse, then of the
\* semantic passes, on the failure paths as on the success path
C25_IssuesInStageOrder ==
  Returned =>
    /\ Len(result[1].issues) >= Len(IssuesInStageOrder)
    /\ SubSeq(result[1].issues, 1, Len(IssuesInStageOrder)) = IssuesInStageOrder
    /\ ~Ran("semantic") => result[1].issues = IssuesInStageOrder

\* C26 as stated: no step of any call changes the schemas object passed in
C26_SchemaNeverChanges == [][hedSchemas' = hedSchemas]_vars

\* C26, amended: a schemas object whose attributes are built (or that is not
\* a Schemas object) is never changed, neither its attribute dictionaries nor
\* a unit list; the first call with a Schemas object whose attributes are not
\* built yet builds them and stores them in the object
C26_BuiltSchemaNeverChanges ==
  [][/\ hedSchemas'.isSchemas = hedSchemas.isSchemas
     /\ (hedSchemas.attributes # <<>> \/ ~hedSchemas.isSchemas) => hedSchemas' = hedSchemas
     /\ hedSchemas' # hedSchemas =>
          /\ pc = "ready"
          /\ hedSchemas'.attributes = <<SchemaAttributes>>]_vars

\* a call has validated a value against the unit lists of the schema with the
\* class clockTime, reported the legal units, and the schema is as it was
C26_Witness ==
  /\ Returned
  /\ Ran("semantic")
  /\ doSemanticValidation
  /\ hedSchemas = BuiltClockTimeSchemas
  /\ ReturnedIssuesOfKind("unitClassInvalidUnit") # {}

\* the first non-whitespace character after a ')' that is none of exempt
AfterClosingAt(string, i, exempt) ==
  /\ string[i] \notin exempt
  /\ ~IsWhitespace(string[i])
  /\ \E j \in 1..(i - 1) :
       /\ string[j] = closingGroupCharacter
       /\ \A k \in (j + 1)..(i - 1) : IsWhitespace(string[k])

FirstAfterClosing(string, i, exempt) ==
  /\ AfterClosingAt(string, i, exempt)
  /\ \A j \in 1..(i - 1) : ~AfterClosingAt(string, j, exempt)

\* the position of the ')' that a character after a closing parenthesis follows
ClosingBefore(string, i) ==
  CHOOSE j \in 1..(i - 1) :
    /\ string[j] = closingGroupCharacter
    /\ \A k \in (j + 1)..(i - 1) : IsWhitespace(string[k])

\* an opening parenthesis with only white space and opening parentheses since
\* the previous delimiter: it opens a group where a token starts
OpensTokenAt(string, i) ==
  /\ string[i] = openingGroupCharacter
  /\ \A k \in 1..Len(SegmentBefore(string, i)) :
       \/ IsWhitespace(SegmentBefore(string, i)[k])
       \/ SegmentBefore(string, i)[k] = openingGroupCharacter

\* the text from the last position before i at which the accumulated text was
\* dropped (a delimiter or a token-opening parenthesis) up to position last
AccumulatedText(string, i, last) ==
  LET dropped == {j \in 1..(i - 1) : IsDelimiterAt(string, j) \/ OpensTokenAt(string, j)}
      from == IF dropped = {} THEN 0 ELSE CHOOSE j \in dropped : \A k \in dropped : k <= j
  IN SubSeq(string, from + 1, last)

CommaMissingIssues == IssuesOfKind(fullHedStringIssues, "commaMissing")

\* the issue list ends with the issue and no extraDelimiter issue lies at or
\* after the position i of the offending character
ScanStopsAt(i, issue) ==
  /\ fullHedStringIssues # <<>>
  /\ fullHedStringIssues[Len(fullHedStringIssues)] = issue
  /\ \A e \in 1..Len(ExtraDelimiterIssues) : ExtraDelimiterIssues[e].index < i - 1

\* the stage is the last one that ran
JustRan(stage) == stagesRun # <<>> /\ stagesRun[Len(stagesRun)] = stage

\* C27 as stated: the first non-whitespace character after a ')' that is not a
\* comma, a tilde or another ')' produces exactly one commaMissing issue whose
\* tag is the text accumulated since the last delimiter up to and including
\* the ')', and no issue is reported for any later position of the string
C27_CommaMissingAfterClosing ==
  JustRan("structural") =>
    \A i \in 1..Len(ScannedString) :
      FirstAfterClosing(ScannedString, i, {comma, tilde, closingGroupCharacter}) =>
        /\ CommaMissingIssues =
             <<TagIssue("commaMissing",
                        AccumulatedText(ScannedString, i,
                                        ClosingBefore(ScannedString, i)))>>
        /\ ScanStopsAt(i, CommaMissingIssues[1])

\* C27 amended: the same for a character that is not an opening parenthesis
\* either, with the tag being the text accumulated since the last delimiter or
\* token-opening parenthesis up to the offending character, exclusive (the
\* white space between the ')' and that character included)
C27_CommaMissingAfterClosingExceptOpening ==
  JustRan("structural") =>
    \A i \in 1..Len(ScannedString) :
      FirstAfterClosing(ScannedString, i,
                        {comma, tilde, closingGroupCharacter, openingGroupCharacter}) =>
        /\ CommaMissingIssues =
             <<TagIssue("commaMissing", AccumulatedText(ScannedString, i, i - 1))>>
        /\ ScanStopsAt(i, CommaMissingIssues[1])

\* a tag after a group with a comma missing, and further delimiters after it
C27_Witness ==
  /\ Ran("structural")
  /\ \E i \in 1..(Len(ScannedString) - 1) :
       /\ FirstAfterClosing(ScannedString, i,
                            {comma, tilde, closingGroupCharacter, openingGroupCharacter})
       /\ \E k \in (i + 1)..Len(ScannedString) : IsDelimiterAt(ScannedString, k)
  /\ Len(CommaMissingIssues) = 1

\* the combined numbers of opening and closing group characters among the
\* first n characters of a string
OpenedUpTo(string, n) ==
  Cardinality({k \in 1..n :
                 string[k] \in {openingGroupCharacter, openingAttributeGroupCharacter}})

ClosedUpTo(string, n) ==
  Cardinality({k \in 1..n :
                 string[k] \in {closingGroupCharacter, closingAttributeGroupCharacter}})

\* a position at which a token ends: a comma or tilde with equal counts, or one
\* of the characters of ending
EndsTokenAt(string, i, ending) ==
  \/ /\ string[i] \in {comma, tilde}
     /\ OpenedUpTo(string, i) = ClosedUpTo(string, i)
  \/ string[i] \in ending

\* the trimmed token of a segment, none for an empty segment
TokenOfSegment(segment) ==
  IF \A k \in 1..Len(segment) : IsWhitespace(segment[k]) THEN <<>> ELSE <<Trim(segment)>>

\* the tokens of the segments between the token ends from position i on, the
\* current segment starting at from; a tilde that ends a token is a token
RECURSIVE TokensBetweenEnds(_, _, _, _)
TokensBetweenEnds(string, from, i, ending) ==
  IF i > Len(string) THEN TokenOfSegment(SubSeq(string, from, Len(string)))
  ELSE IF EndsTokenAt(string, i, ending)
  THEN TokenOfSegment(SubSeq(string, from, i - 1))
         \o (IF string[i] = tilde THEN <<<<tilde>>>> ELSE <<>>)
         \o TokensBetweenEnds(string, i + 1, i + 1, ending)
  ELSE TokensBetweenEnds(string, from, i + 1, ending)

\* brackets that are properly nested, '(' and '{' counted together
BracketsBalanced(string) ==
  /\ \A n \in 1..Len(string) : OpenedUpTo(string, n) >= ClosedUpTo(string, n)
  /\ OpenedUpTo(string, Len(string)) = ClosedUpTo(string, Len(string))

\* the tokens are non-empty and trimmed; when the brackets of the string are
\* balanced the counters are equal after the scan and every token has as many
\* opening as closing group characters
TokensTrimmedAndBalanced(string, hedTags, scanned) ==
  /\ \A t \in 1..Len(hedTags) : hedTags[t] # <<>> /\ Trim(hedTags[t]) = hedTags[t]
  /\ BracketsBalanced(string) =>
       /\ scanned.numberOfOpenedGroups = scanned.numberOfClosedGroups
       /\ \A t \in 1..Len(hedTags) :
            OpenedUpTo(hedTags[t], Len(hedTags[t])) = ClosedUpTo(hedTags[t], Len(hedTags[t]))

\* C28 as stated: splitHedString ends a token only at a comma or tilde seen
\* while the opened and closed counts are equal, a depth-0 tilde is its own
\* token, every token is non-empty and trimmed, and for every input with
\* balanced brackets the counters end equal and every token is balanced; the
\* function is applied to the string of every call, whether or not the call
\* gets as far as the parse
C28_SplitOnlyAtDepthZero ==
  pc = "ready" =>
    /\ splitHedString(hedString, <<>>).hedTags = TokensBetweenEnds(hedString, 1, 1, {})
    /\ TokensTrimmedAndBalanced(hedString, splitHedString(hedString, <<>>).hedTags,
                                SplitScan(hedString, 0, SplitStart(<<>>)))

\* C28 amended: a token also ends at a '[' or a ']', and the part about
\* balanced inputs is for the inputs without '[' and ']'
C28_SplitAtDepthZeroOrInvalidCharacter ==
  pc = "ready" =>
    /\ splitHedString(hedString, <<>>).hedTags
         = TokensBetweenEnds(hedString, 1, 1, {"[", "]"})
    /\ (\A k \in 1..Len(hedString) : hedString[k] \notin {"[", "]"}) =>
         TokensTrimmedAndBalanced(hedString, splitHedString(hedString, <<>>).hedTags,
                                  SplitScan(hedString, 0, SplitStart(<<>>)))

\* a parsed string with a comma and a tilde inside a group, a tilde and a comma
\* outside and a token with white space around it
C28_Witness ==
  /\ Ran("parse")
  /\ BracketsBalanced(hedString)
  /\ \E i \in 1..Len(hedString) :
       hedString[i] = comma /\ OpenedUpTo(hedString, i) # ClosedUpTo(hedString, i)
  /\ \E i \in 1..Len(hedString) :
       hedString[i] = tilde /\ OpenedUpTo(hedString, i) # ClosedUpTo(hedString, i)
  /\ \E i \in 1..Len(hedString) : hedString[i] = tilde /\ EndsTokenAt(hedString, i, {})
  /\ \E i \in 1..Len(hedString) : hedString[i] = comma /\ EndsTokenAt(hedString, i, {})
  /\ Len(splitHedString(hedString, <<>>).hedTags) = 4

\* a token that is a group, and one that is an attribute group
IsGroupToken(token) ==
  /\ token # <<>>
  /\ Trim(token)[1] = openingGroupCharacter
  /\ Trim(token)[Len(Trim(token))] = closingGroupCharacter

IsAttributeGroupToken(token) ==
  /\ ~IsGroupToken(token)
  /\ \E o \in 1..Len(token) :
       /\ token[o] = openingAttributeGroupCharacter
       /\ \A k \in 1..o : token[k] # closingAttributeGroupCharacter
       /\ \E k \in (o + 1)..Len(token) : token[k] = closingAttributeGroupCharacter

\* the tokens of the text between the parentheses of a group
TokensOfGroup(group) ==
  TokensBetweenEnds(SubSeq(group, 2, Len(group) - 1), 1, 1, {"[", "]"})

\* the groups of a list of tokens, depth first and in post-order: the groups
\* nested in a group, in their order, and then the group
RECURSIVE GroupsInPostOrder(_)
GroupsInPostOrder(tokens) ==
  IF tokens = <<>> THEN <<>>
  ELSE (IF IsGroupToken(Head(tokens))
        THEN GroupsInPostOrder(TokensOfGroup(Head(tokens))) \o <<Head(tokens)>>
        ELSE IF IsAttributeGroupToken(Head(tokens)) THEN <<Head(tokens)>> ELSE <<>>)
       \o GroupsInPostOrder(Tail(tokens))

IsSubstringOf(part, string) ==
  \E k \in 0..(Len(string) - Len(part)) : SubSeq(string, k + 1, k + Len(part)) = part

\* the two lists of a parsed string are in post-order and go together
InPostOrder(string, ps) ==
  /\ Len(ps.tagGroups) = Len(ps.tagGroupStrings)
  /\ ps.tagGroupStrings = GroupsInPostOrder(TokensBetweenEnds(string, 1, 1, {"[", "]"}))
  /\ \A j \in 1..Len(ps.tagGroupStrings) :
       /\ IsSubstringOf(ps.tagGroupStrings[j], string)
       /\ IsGroupToken(ps.tagGroupStrings[j]) =>
            /\ ps.tagGroups[j] = TokensOfGroup(ps.tagGroupStrings[j])
            /\ \A m \in 1..Len(ps.tagGroups[j]) :
                 (IsGroupToken(ps.tagGroups[j][m]) \/ IsAttributeGroupToken(ps.tagGroups[j][m]))
                   => \E i \in 1..(j - 1) : ps.tagGroupStrings[i] = ps.tagGroups[j][m]
       /\ IsAttributeGroupToken(ps.tagGroupStrings[j]) =>
            /\ ps.tagGroups[j] # <<>>
            /\ ps.tagGroups[j][1]
                 = Trim(SubSeq(ps.tagGroupStrings[j], 1,
                               IndexOf(ps.tagGroupStrings[j], openingAttributeGroupCharacter)))

\* C29: group resolution is depth-first post-order: for every input a nested
\* group is in tagGroups before the group that contains it, the groups of one
\* level are in source order, and tagGroups and tagGroupStrings have the same
\* length, tagGroupStrings[i] being the original substring of the group at
\* tagGroups[i]; the parser is applied to the string of every call, whether or
\* not the call gets as far as the parse
C29_GroupsInPostOrder ==
  pc = "ready" => InPostOrder(hedString, parseHedString(hedString).parsedString)

\* a parsed string with two groups nested in a group that is followed by a group
C29_Witness ==
  /\ Ran("parse")
  /\ parsedString # <<>>
  /\ Len(parsedString[1].tagGroupStrings) = 4
  /\ Len(parsedString[1].tagGroups[3]) = 2
  /\ parsedString[1].tagGroupStrings[1] = parsedString[1].tagGroups[3][1]
  /\ parsedString[1].tagGroupStrings[2] = parsedString[1].tagGroups[3][2]
  /\ parsedString[1].tagGroupStrings[2] # parsedString[1].tagGroupStrings[4]
  /\ InPostOrder(hedString, parsedString[1])

\* in every prefix there are at least as many '(' as ')'
ProperlyNested(string) ==
  \A n \in 1..Len(string) :
    Cardinality({k \in 1..n : string[k] = openingGroupCharacter})
      >= Cardinality({k \in 1..n : string[k] = closingGroupCharacter})

\* C30: whenever the structural check and the parse both report no issue for
\* a string, its parentheses are properly nested: no prefix has more ')' than
\* '(', so a string such as "A),(b" is not accepted
C30_AcceptedIsProperlyNested ==
  (Ran("structural") /\ Ran("parse")
     /\ fullHedStringIssues = <<>> /\ parsedStringIssues = <<>>)
    => ProperlyNested(hedString)

====
